---- MODULE Spec2Model ----
(***************************************************************************)
(* Verification model of the lip-sync translator: the phoneme/viseme       *)
(* tables and generator (src/utils/phonemes.js), the viseme scheduler      *)
(* LipSyncService (src/services/lipSync.js), the peer channel              *)
(* WebRTCService (src/services/webrtc.js) and the orchestrator App         *)
(* (App.jsx).  Strings are sequences of characters; a character outside    *)
(* ASCII is written by its code point ("U+026A").  Times are integers in   *)
(* units of 1/60 second.                                                   *)
(***************************************************************************)
EXTENDS Integers, Sequences, FiniteSets, TLC

VARIABLES
    lipSync,      \* fields of the LipSyncService instance
    rafCallbacks, \* ids of the animation-frame callbacks the browser holds
    clock,        \* audioContext.currentTime
    play,         \* history of the latest startLipSync (see InitPlay)
    prevNotified, \* history: last notification before the latest handler
    emitted,      \* history: notifications of the latest handler, in order
    lastOp,       \* history: name of the latest handler
    genInput,     \* the text and language given to the viseme generator
    genOutput,    \* its result, NotRun before it ran
    call,         \* the function and arguments of a single call (see NoCall)
    result,       \* what that call returned, NotDone before it ran
    dictionaries, \* the dictionaries of the DictionaryMT instance
    translation,  \* history of the latest DictionaryMT call (see NoTranslation)
    channel,      \* fields of the WebRTCService instance
    peers,        \* state of every SimplePeer instance created so far
    conversions,  \* sendAudio calls whose base64 conversion is running
    sends,        \* history: per send call, the channel state around it
    wire,         \* history: what the transport transmitted
    received,     \* history: the latest handleData call and its effects
    link,         \* history: the latest channel handler's events (see InitLink)
    app,          \* React state of App and the AudioPlayback instance
    capture,      \* the AudioCapture instance and the callback it holds
    utterances    \* the handleAudioData invocations and where each stands

lsVars == <<lipSync, rafCallbacks, clock, play, prevNotified, emitted, lastOp>>
dictVars == <<dictionaries, translation>>
genVars == <<genInput, genOutput, call, result, dictVars>>
chanVars == <<channel, peers, conversions, sends, wire, received, link>>
appVars == <<app, capture, utterances>>
vars == <<lsVars, genVars, chanVars, appVars>>

----------------------------------------------------------------------------
(* Bounds *)

MaxLen == 2        \* longest text given to the generator by the scheduler runs
MaxClock == 4      \* the clock stops advancing here
MaxDelta == 1      \* longest per-event span of a generated timeline

MaxTextLen == 3    \* longest text given to the generator on its own
MaxPeers == 2      \* SimplePeer instances created in one run
MaxSends == 2      \* send calls in one run
MaxUtterances == 1 \* handleAudioData invocations past the guard in one run
MaxBytes == 3      \* longest binary payload given to sendAudio
MaxVocab == 3      \* most symbols of a vocabulary
MaxLogits == 6     \* longest model output given to decodeOutput
MaxWords == 2      \* most words and spaces of a text given to DictionaryMT
MaxAdds == 2       \* addTranslation calls in one run
MaxFrames == 2     \* most frames of a waveform, the one-second waveform apart
MaxCells == 3      \* most values of a matrix given to normalize

----------------------------------------------------------------------------
(* phonemes.js *)

Null == "null"
Undefined == "undefined"

Last(seq) == seq[Len(seq)]

Range(seq) == { seq[k] : k \in 1..Len(seq) }

\* PHONEMES, lines 7-52 (the second 'r' entry overwrites the first).
PHONEMES ==
    ( <<"i">> :> "EE" ) @@ ( <<"U+026A">> :> "IH" ) @@ ( <<"e">> :> "EH" ) @@
    ( <<"U+00E6">> :> "AA" ) @@ ( <<"U+0251">> :> "AA" ) @@
    ( <<"U+0254">> :> "AW" ) @@ ( <<"o", "U+028A">> :> "OW" ) @@
    ( <<"U+028A">> :> "UH" ) @@ ( <<"u">> :> "UW" ) @@ ( <<"U+028C">> :> "AH" ) @@
    ( <<"U+025C", "r">> :> "ER" ) @@ ( <<"U+0259", "r">> :> "ER" ) @@
    ( <<"p">> :> "PP" ) @@ ( <<"b">> :> "BB" ) @@ ( <<"t">> :> "DD" ) @@
    ( <<"d">> :> "DD" ) @@ ( <<"k">> :> "KK" ) @@ ( <<"g">> :> "GG" ) @@
    ( <<"f">> :> "FF" ) @@ ( <<"v">> :> "VV" ) @@ ( <<"U+03B8">> :> "TH" ) @@
    ( <<"U+00F0">> :> "TH" ) @@ ( <<"s">> :> "SS" ) @@ ( <<"z">> :> "ZZ" ) @@
    ( <<"U+0283">> :> "SH" ) @@ ( <<"U+0292">> :> "ZH" ) @@ ( <<"h">> :> "HH" ) @@
    ( <<"m">> :> "MM" ) @@ ( <<"n">> :> "NN" ) @@ ( <<"U+014B">> :> "NG" ) @@
    ( <<"l">> :> "LL" ) @@ ( <<"r">> :> "RR" ) @@ ( <<"w">> :> "WW" ) @@
    ( <<"j">> :> "YY" ) @@ ( <<"x">> :> "HH" ) @@ ( <<"U+0272">> :> "NN" ) @@
    ( <<"U+028E">> :> "LL" ) @@ ( <<"U+027E">> :> "DD" )

\* VISEMES, lines 55-86.
VISEMES ==
    [ AA |-> "viseme_aa", IH |-> "viseme_ih", EH |-> "viseme_eh",
      AH |-> "viseme_ah", AW |-> "viseme_aw", OW |-> "viseme_ow",
      UW |-> "viseme_uw", UH |-> "viseme_uh", ER |-> "viseme_er",
      PP |-> "viseme_pp", BB |-> "viseme_bb", DD |-> "viseme_dd",
      KK |-> "viseme_kk", GG |-> "viseme_gg", FF |-> "viseme_ff",
      VV |-> "viseme_vv", TH |-> "viseme_th", SS |-> "viseme_ss",
      ZZ |-> "viseme_zz", SH |-> "viseme_sh", ZH |-> "viseme_zh",
      HH |-> "viseme_hh", MM |-> "viseme_mm", NN |-> "viseme_nn",
      NG |-> "viseme_ng", LL |-> "viseme_ll", RR |-> "viseme_rr",
      WW |-> "viseme_ww", YY |-> "viseme_yy", REST |-> "viseme_rest" ]

REST == VISEMES.REST

\* The closed VisemeId set: the values of VISEMES.
VisemeIds == { VISEMES[k] : k \in DOMAIN VISEMES }

\* String.prototype.toLowerCase on one character of the modelled alphabet.
UpperToLower ==
    ( "A" :> "a" ) @@ ( "H" :> "h" ) @@ ( "I" :> "i" ) @@ ( "P" :> "p" )

ToLowerChar(c) == IF c \in DOMAIN UpperToLower THEN UpperToLower[c] ELSE c

ToLowerCase(s) == [ k \in 1..Len(s) |-> ToLowerChar(s[k]) ]

\* A property read of an object literal: the value, or undefined.
Lookup(table, key) == IF key \in DOMAIN table THEN table[key] ELSE Undefined

\* phonemeToViseme, lines 93-97.  'viseme ? ... : ...' tests the PHONEMES
\* entry only; VISEMES[viseme] is read without a test.
phonemeToViseme(phoneme) ==
    LET normalized == ToLowerCase(phoneme)
        viseme == Lookup(PHONEMES, normalized)
    IN  IF viseme # Undefined THEN Lookup(VISEMES, viseme) ELSE VISEMES.REST

\* englishPhonemes, lines 108-112.
englishPhonemes ==
    ( <<"a">> :> <<"U+00E6">> ) @@ ( <<"e">> :> <<"e">> ) @@
    ( <<"i">> :> <<"U+026A">> ) @@ ( <<"o">> :> <<"o", "U+028A">> ) @@
    ( <<"u">> :> <<"u">> ) @@ ( <<"t", "h">> :> <<"U+03B8">> ) @@
    ( <<"s", "h">> :> <<"U+0283">> ) @@ ( <<"c", "h">> :> <<"t", "U+0283">> ) @@
    ( <<"n", "g">> :> <<"U+014B">> ) @@ ( <<"a", "r">> :> <<"U+0251", "r">> ) @@
    ( <<"e", "r">> :> <<"U+0259", "r">> ) @@ ( <<"o", "r">> :> <<"U+0254", "r">> )

\* spanishPhonemes, lines 115-118.
spanishPhonemes ==
    ( <<"a">> :> <<"a">> ) @@ ( <<"e">> :> <<"e">> ) @@ ( <<"i">> :> <<"i">> ) @@
    ( <<"o">> :> <<"o">> ) @@ ( <<"u">> :> <<"u">> ) @@
    ( <<"U+00F1">> :> <<"U+0272">> ) @@ ( <<"l", "l">> :> <<"U+028E">> ) @@
    ( <<"r", "r">> :> <<"r">> ) @@ ( <<"j">> :> <<"x">> )

IsSpace(c) == c = " "

\* String.prototype.split(/\s+/): the maximal runs of non-space characters,
\* with an empty string where the text starts or ends with spaces (or is
\* empty).
RECURSIVE SplitFrom(_, _, _)
SplitFrom(text, i, word) ==
    IF i > Len(text) THEN <<word>>
    ELSE IF IsSpace(text[i])
         THEN IF i > 1 /\ IsSpace(text[i - 1])
              THEN SplitFrom(text, i + 1, word)
              ELSE <<word>> \o SplitFrom(text, i + 1, <<>>)
         ELSE SplitFrom(text, i + 1, Append(word, text[i]))

SplitWords(text) == SplitFrom(text, 1, <<>>)

\* The inner loop of textToPhonemes, lines 126-140, from index i of a word.
\* word[i + 1] past the end is undefined, so twoChar is no key of the map.
RECURSIVE WordPhonemes(_, _, _)
WordPhonemes(phonemeMap, word, i) ==
    IF i > Len(word) THEN <<>>
    ELSE LET char == <<word[i]>>
             twoChar == IF i + 1 <= Len(word) THEN <<word[i], word[i + 1]>>
                        ELSE <<word[i], Undefined>>
         IN  IF twoChar \in DOMAIN phonemeMap
             THEN <<phonemeMap[twoChar]>> \o WordPhonemes(phonemeMap, word, i + 2)
             ELSE IF char \in DOMAIN phonemeMap
                  THEN <<phonemeMap[char]>> \o WordPhonemes(phonemeMap, word, i + 1)
                  ELSE <<char>> \o WordPhonemes(phonemeMap, word, i + 1)

\* The outer loop, lines 124-142: each word's phonemes, then ' '.
RECURSIVE WordsPhonemes(_, _, _)
WordsPhonemes(phonemeMap, words, w) ==
    IF w > Len(words) THEN <<>>
    ELSE WordPhonemes(phonemeMap, words[w], 1) \o << <<" ">> >>
         \o WordsPhonemes(phonemeMap, words, w + 1)

\* textToPhonemes without toLowerCase.
textToPhonemes_noLowerCase(text, language) ==
    LET phonemeMap == IF language = "es" THEN spanishPhonemes ELSE englishPhonemes
        words == SplitWords(text)
        phonemes == WordsPhonemes(phonemeMap, words, 1)
    IN  SelectSeq(phonemes, LAMBDA p : p # <<" ">>)

\* textToPhonemes, lines 106-145.
textToPhonemes(text, language) ==
    LET phonemeMap == IF language = "es" THEN spanishPhonemes ELSE englishPhonemes
        words == SplitWords(ToLowerCase(text))
        phonemes == WordsPhonemes(phonemeMap, words, 1)
    IN  SelectSeq(phonemes, LAMBDA p : p # <<" ">>)

\* generateVisemeSequence, lines 153-167.  The constant field duration: 0.1
\* of each entry is read nowhere and is left out.
generateVisemeSequence(text, language) ==
    LET phonemes == textToPhonemes(text, language)
    IN  [ k \in 1..Len(phonemes) |->
            [ phoneme |-> phonemes[k], viseme |-> phonemeToViseme(phonemes[k]) ] ]

----------------------------------------------------------------------------
(* lipSync.js *)

\* generateLipSyncFromText that gives every event the whole duration.
generateLipSyncFromText_noDivision(text, language, duration) ==
    LET visemes == generateVisemeSequence(text, language)
        visemeDuration == duration
    IN  [ index \in 1..Len(visemes) |->
            [ phoneme |-> visemes[index].phoneme,
              viseme |-> visemes[index].viseme,
              startTime |-> (index - 1) * visemeDuration,
              endTime |-> index * visemeDuration ] ]

\* generateLipSyncFromText, lines 37-49.  duration / visemes.length is exact
\* for the durations the model draws (multiples of the length); for an empty
\* sequence the quotient is not used.
generateLipSyncFromText(text, language, duration) ==
    LET visemes == generateVisemeSequence(text, language)
        visemeDuration == IF Len(visemes) = 0 THEN 0 ELSE duration \div Len(visemes)
    IN  [ index \in 1..Len(visemes) |->
            [ phoneme |-> visemes[index].phoneme,
              viseme |-> visemes[index].viseme,
              startTime |-> (index - 1) * visemeDuration,
              endTime |-> index * visemeDuration ] ]

\* A world is the service's fields (ls), the browser's pending
\* animation-frame callbacks (raf) and the notifications handed to
\* onVisemeChange so far in the running handler (out).

\* The animationFrame field when it holds no handle (null); the handles of
\* requestAnimationFrame are positive.
NoFrame == 0

\* requestAnimationFrame: a handle that is no pending callback's and differs
\* from the handle the service still holds.
FreshHandle(w) ==
    CHOOSE h \in 1..(Cardinality(w.raf) + 2) :
        /\ h \notin w.raf
        /\ h # w.ls.animationFrame
        /\ \A g \in 1..(h - 1) : g \in w.raf \/ g = w.ls.animationFrame

\* setViseme, lines 130-135.
setViseme(w, viseme, by) ==
    [ w EXCEPT !.ls.currentViseme = viseme,
               !.out = IF w.ls.onVisemeChange
                       THEN Append(@, [ viseme |-> viseme, by |-> by ])
                       ELSE @ ]

\* stopLipSync without the reset of the viseme.
stopLipSync_keepViseme(w) ==
    LET w1 == [ w EXCEPT !.ls.isPlaying = FALSE ]
    IN  IF w1.ls.animationFrame # NoFrame
        THEN [ w1 EXCEPT !.raf = @ \ { w1.ls.animationFrame },
                         !.ls.animationFrame = NoFrame ]
        ELSE w1

\* stopLipSync, lines 86-95.
stopLipSync(w) ==
    LET w1 == [ w EXCEPT !.ls.isPlaying = FALSE ]
        w2 == IF w1.ls.animationFrame # NoFrame
              THEN [ w1 EXCEPT !.raf = @ \ { w1.ls.animationFrame },
                               !.ls.animationFrame = NoFrame ]
              ELSE w1
    IN  setViseme(w2, REST, "stopLipSync")

FindCurrent_exclusiveStart(queue, currentTime) ==
    LET hits == { k \in 1..Len(queue) :
                    currentTime > queue[k].startTime /\ currentTime < queue[k].endTime }
    IN  IF hits = {} THEN 0 ELSE CHOOSE k \in hits : \A j \in hits : k <= j

\* Array.prototype.find with the predicate of lines 106-108: the index of the
\* first event whose interval holds currentTime, 0 when there is none.
FindCurrent(queue, currentTime) ==
    LET hits == { k \in 1..Len(queue) :
                    currentTime >= queue[k].startTime /\ currentTime < queue[k].endTime }
    IN  IF hits = {} THEN 0 ELSE CHOOSE k \in hits : \A j \in hits : k <= j

\* The filter keeping the events that end at the current time.
RemovePast_inclusive(queue, currentTime) ==
    SelectSeq(queue, LAMBDA viseme : currentTime <= viseme.endTime)

\* The filter of line 115.
RemovePast(queue, currentTime) ==
    SelectSeq(queue, LAMBDA viseme : currentTime < viseme.endTime)

animate_noCompare(w, currentTime) ==
    IF ~w.ls.isPlaying THEN w
    ELSE LET k == FindCurrent(w.ls.visemeQueue, currentTime)
             w1 == IF k # 0
                   THEN setViseme(w, w.ls.visemeQueue[k].viseme, "animate")
                   ELSE w
             w2 == [ w1 EXCEPT !.ls.visemeQueue = RemovePast(@, currentTime) ]
         IN  IF Len(w2.ls.visemeQueue) = 0
             THEN stopLipSync(w2)
             ELSE LET h == FreshHandle(w2)
                  IN  [ w2 EXCEPT !.raf = @ \cup { h }, !.ls.animationFrame = h ]

animate_noGuard(w, currentTime) ==
    LET k == FindCurrent(w.ls.visemeQueue, currentTime)
        w1 == IF k # 0 /\ w.ls.visemeQueue[k].viseme # w.ls.currentViseme
              THEN setViseme(w, w.ls.visemeQueue[k].viseme, "animate")
              ELSE w
        w2 == [ w1 EXCEPT !.ls.visemeQueue = RemovePast(@, currentTime) ]
    IN  IF Len(w2.ls.visemeQueue) = 0
        THEN stopLipSync(w2)
        ELSE LET h == FreshHandle(w2)
             IN  [ w2 EXCEPT !.raf = @ \cup { h }, !.ls.animationFrame = h ]

animate_noStop(w, currentTime) ==
    IF ~w.ls.isPlaying THEN w
    ELSE LET k == FindCurrent(w.ls.visemeQueue, currentTime)
             w1 == IF k # 0 /\ w.ls.visemeQueue[k].viseme # w.ls.currentViseme
                   THEN setViseme(w, w.ls.visemeQueue[k].viseme, "animate")
                   ELSE w
             w2 == [ w1 EXCEPT !.ls.visemeQueue = RemovePast(@, currentTime) ]
             h == FreshHandle(w2)
         IN  [ w2 EXCEPT !.raf = @ \cup { h }, !.ls.animationFrame = h ]

\* animate, lines 100-124.
animate(w, currentTime) ==
    IF ~w.ls.isPlaying THEN w
    ELSE LET k == FindCurrent(w.ls.visemeQueue, currentTime)
             w1 == IF k # 0 /\ w.ls.visemeQueue[k].viseme # w.ls.currentViseme
                   THEN setViseme(w, w.ls.visemeQueue[k].viseme, "animate")
                   ELSE w
             w2 == [ w1 EXCEPT !.ls.visemeQueue = RemovePast(@, currentTime) ]
         IN  IF Len(w2.ls.visemeQueue) = 0
             THEN stopLipSync(w2)
             ELSE LET h == FreshHandle(w2)
                  IN  [ w2 EXCEPT !.raf = @ \cup { h }, !.ls.animationFrame = h ]

\* The map without the offset.
ShiftEvents_noShift(visemeSequence, startTime) ==
    [ k \in 1..Len(visemeSequence) |-> visemeSequence[k] ]

\* The map of lines 73-77.
ShiftEvents(visemeSequence, startTime) ==
    [ k \in 1..Len(visemeSequence) |->
        [ visemeSequence[k] EXCEPT !.startTime = @ + startTime,
                                   !.endTime = @ + startTime ] ]

startLipSync_noStop(w, visemeSequence, startTime, currentTime) ==
    LET w2 == [ w EXCEPT !.ls.visemeQueue = ShiftEvents(visemeSequence, startTime),
                         !.ls.isPlaying = TRUE ]
    IN  animate(w2, currentTime)

\* startLipSync, lines 68-81.
startLipSync(w, visemeSequence, startTime, currentTime) ==
    LET w1 == IF w.ls.isPlaying THEN stopLipSync(w) ELSE w
        w2 == [ w1 EXCEPT !.ls.visemeQueue = ShiftEvents(visemeSequence, startTime),
                          !.ls.isPlaying = TRUE ]
    IN  animate(w2, currentTime)

----------------------------------------------------------------------------
(* The scheduler driven by its host: startLipSync, stopLipSync, the        *)
(* browser's animation frames and the audio clock.                         *)

\* Characters of the texts the scheduler runs are generated from.
SchedChars == { "a", "i" }
Languages == { "en", "es" }

RECURSIVE TextsUpTo(_, _)
TextsUpTo(chars, n) ==
    IF n = 0 THEN { <<>> }
    ELSE LET shorter == TextsUpTo(chars, n - 1)
         IN  shorter \cup { Append(t, c) : t \in shorter, c \in chars }

\* The texts: those of up to MaxLen characters, and one of a separator only.
SchedTexts == TextsUpTo(SchedChars, MaxLen) \cup { <<" ">> }

\* The timelines a caller generates from those texts, each event spanning
\* 1..MaxDelta time units.
SchedSequences ==
    { [ text |-> text,
        events |-> generateLipSyncFromText(text, language,
                       Len(textToPhonemes(text, language)) * delta) ] :
        text \in SchedTexts, language \in Languages, delta \in 1..MaxDelta }

\* LipSyncService constructor, lines 8-15 (audioContext is set by
\* initialize and is the clock).
InitLipSync ==
    [ currentViseme |-> REST, visemeQueue |-> <<>>, isPlaying |-> FALSE,
      animationFrame |-> NoFrame, onVisemeChange |-> FALSE,
      audioContext |-> "running" ]

\* History of the latest timeline: the text it was generated from, the
\* caller's sequence and offset, the clock reading at the call, the
\* installed (shifted) events, the
\* indices of the events a tick fell into, the visemes its ticks notified,
\* the number of events its animation frames evicted, whether a listener was
\* registered when it started, and how it ended.
InitPlay ==
    [ text |-> <<>>, given |-> <<>>, offset |-> 0, at |-> 0,
      timeline |-> <<>>, ticked |-> {}, log |-> <<>>, swept |-> 0,
      observed |-> FALSE, finished |-> FALSE, aborted |-> FALSE ]

World == [ ls |-> lipSync, raf |-> rafCallbacks, out |-> <<>> ]

VisemesBy(out, by) ==
    LET sel == SelectSeq(out, LAMBDA n : n.by = by)
    IN  [ k \in 1..Len(sel) |-> sel[k].viseme ]

\* The indices of the timeline events whose interval [startTime, endTime)
\* holds time t.
EventsAt(events, t) ==
    { k \in 1..Len(events) : events[k].startTime <= t /\ t < events[k].endTime }

\* The history after one call of animate at time t that took world a to b.
Ticked(p, a, b, t) ==
    IF ~a.ls.isPlaying THEN p
    ELSE [ p EXCEPT !.ticked = @ \cup EventsAt(p.timeline, t),
                    !.log = @ \o VisemesBy(b.out, "animate"),
                    !.finished = ~b.ls.isPlaying ]

\* What every handler leaves behind: the fields, the browser's callbacks and
\* the notifications it made.
Finish(w, op) ==
    /\ lipSync' = w.ls
    /\ rafCallbacks' = w.raf
    /\ emitted' = w.out
    /\ prevNotified' = IF emitted = <<>> THEN prevNotified
                       ELSE emitted[Len(emitted)].viseme
    /\ lastOp' = op

\* A caller generates a timeline from a text and starts it, at offset 0 (the
\* default) or at the current clock time.
StartLipSync ==
    \E generated \in SchedSequences, startTime \in { 0, clock } :
        LET visemeSequence == generated.events
            w == startLipSync(World, visemeSequence, startTime, clock)
            shifted == ShiftEvents(visemeSequence, startTime)
            started == [ InitPlay EXCEPT
                           !.text = generated.text,
                           !.given = visemeSequence,
                           !.offset = startTime,
                           !.at = clock,
                           !.timeline = shifted,
                           !.observed = lipSync.onVisemeChange ]
            running == [ World EXCEPT !.ls.isPlaying = TRUE ]
        IN  /\ \A k \in 1..Len(shifted) : shifted[k].endTime <= MaxClock
            /\ Finish(w, IF lipSync.isPlaying THEN "restart" ELSE "start")
            /\ play' = Ticked(started, running, w, clock)
            /\ UNCHANGED <<clock, genVars, chanVars, appVars>>

\* A caller stops the scheduler.
StopLipSync ==
    /\ Finish(stopLipSync(World), "stop")
    /\ play' = [ play EXCEPT !.aborted = @ \/ lipSync.isPlaying ]
    /\ UNCHANGED <<clock, genVars, chanVars, appVars>>

\* The browser runs a pending animation-frame callback: () => this.animate().
Frame ==
    \E h \in rafCallbacks :
        LET a == [ World EXCEPT !.raf = @ \ { h } ]
            w == animate(a, clock)
        IN  /\ Finish(w, "frame")
            /\ play' = [ Ticked(play, a, w, clock) EXCEPT
                           !.swept = @ + Len(a.ls.visemeQueue)
                                       - Len(w.ls.visemeQueue) ]
            /\ UNCHANGED <<clock, genVars, chanVars, appVars>>

\* LipSyncService.cleanup, lines 148-153: the timeline is stopped and the
\* audio context closed, whose currentTime no longer advances.
Cleanup ==
    /\ Finish([ stopLipSync(World) EXCEPT !.ls.audioContext = "closed" ],
              "cleanup")
    /\ play' = [ play EXCEPT !.aborted = @ \/ lipSync.isPlaying ]
    /\ UNCHANGED <<clock, genVars, chanVars, appVars>>

\* The audio clock advances.
AdvanceClock ==
    /\ lipSync.audioContext = "running"
    /\ clock < MaxClock
    /\ clock' = clock + 1
    /\ UNCHANGED <<lipSync, rafCallbacks, play, prevNotified, emitted, lastOp>>
    /\ UNCHANGED <<genVars, chanVars, appVars>>

\* AvatarLipSyncController.setupLipSyncCallback, lines 201-205.
SetupLipSyncCallback ==
    /\ lipSync' = [ lipSync EXCEPT !.onVisemeChange = TRUE ]
    /\ UNCHANGED <<rafCallbacks, clock, play, prevNotified, emitted, lastOp>>
    /\ UNCHANGED <<genVars, chanVars, appVars>>

LsNext ==
    \/ StartLipSync
    \/ StopLipSync
    \/ Cleanup
    \/ Frame
    \/ AdvanceClock
    \/ SetupLipSyncCallback

----------------------------------------------------------------------------
(* The viseme generator on its own: one text, one language, one call.      *)

\* Characters of the generator's texts: a bigram of the English table (th),
\* vowels of both tables, an upper-case letter, an unmapped character and
\* the word separator.
GenChars == { "t", "h", "a", "i", "I", "?", " " }

GenTexts == TextsUpTo(GenChars, MaxTextLen)

NotRun == [ ran |-> FALSE, events |-> <<>> ]

\* generateVisemeSequence(text, language) is called.
Generate ==
    /\ genOutput = NotRun
    /\ genOutput' = [ ran |-> TRUE,
                      events |-> generateVisemeSequence(genInput.text, genInput.language) ]
    /\ UNCHANGED <<genInput, call, result, dictVars, lsVars, chanVars, appVars>>

GenNext == Generate

\* No single call is made in the runs of the services.
NoCall == [ fn |-> "none" ]
NotDone == [ done |-> FALSE ]

----------------------------------------------------------------------------
(* webrtc.js *)

(* A JavaScript string value is <<"str", s>>, a number <<"num", digits>>,  *)
(* null <<"null">>, undefined <<"undefined">>.  An object is the sequence   *)
(* of its <<key, value>> properties in insertion order.  JSON text is a     *)
(* sequence of tokens: the punctuation <<"{">> <<"}">> <<":">> <<",">> and  *)
(* the scalar values.  Bytes are tokens tagged by the encoder.              *)

Str(s) == <<"str", s>>
JsNull == <<"null">>
JsUndefined == <<"undefined">>

\* Number.prototype.toString for the numbers of the model.
DigitText == <<"1", "2", "3", "4", "5", "6", "7", "8", "9">>
Num(n) == <<"num", DigitText[n]>>

IsScalar(tok) == Len(tok) = 2 /\ tok[1] \in { "str", "num" }

\* A property read, obj[key]: the last property of that name, or undefined.
Get(obj, key) ==
    LET at == { k \in 1..Len(obj) : obj[k][1] = key }
    IN  IF at = {} THEN JsUndefined
        ELSE obj[CHOOSE k \in at : \A j \in at : j <= k][2]

\* JSON.stringify of a flat object: properties whose value is undefined are
\* left out.
JSONstringify(obj) ==
    LET props == SelectSeq(obj, LAMBDA pr : pr[2] # JsUndefined)
        body == [ k \in 1..(4 * Len(props)) |->
                    LET pr == props[(k + 3) \div 4]
                    IN  CASE k % 4 = 1 -> Str(pr[1])
                          [] k % 4 = 2 -> <<":">>
                          [] k % 4 = 3 -> pr[2]
                          [] OTHER -> <<",">> ]
    IN  <<<<"{">>>>
        \o (IF Len(props) = 0 THEN <<>> ELSE SubSeq(body, 1, 4 * Len(props) - 1))
        \o <<<<"}">>>>

\* TextEncoder.encode and TextDecoder.decode: a byte sequence that is no
\* UTF-8 decodes to U+FFFD.
TextEncode(text) == [ k \in 1..Len(text) |-> <<"utf8">> \o text[k] ]
TextDecode(data) ==
    [ k \in 1..Len(data) |->
        IF Len(data[k]) >= 1 /\ data[k][1] = "utf8" THEN Tail(data[k])
        ELSE <<"U+FFFD">> ]

\* JSON.parse of a flat object, a scalar or null; ok is FALSE for a
\* SyntaxError.
JSONparse(text) ==
    LET n == Len(text)
        inner == SubSeq(text, 2, n - 1)
        m == Len(inner)
        wellFormed ==
            /\ m % 4 = 3
            /\ \A k \in 1..m :
                 CASE k % 4 = 1 -> Len(inner[k]) = 2 /\ inner[k][1] = "str"
                   [] k % 4 = 2 -> inner[k] = <<":">>
                   [] k % 4 = 3 -> IsScalar(inner[k]) \/ inner[k] = JsNull
                   [] OTHER -> inner[k] = <<",">>
    IN  IF n = 1 /\ (IsScalar(text[1]) \/ text[1] = JsNull)
        THEN [ ok |-> TRUE, kind |-> IF text[1] = JsNull THEN "null" ELSE "scalar",
               value |-> <<>> ]
        ELSE IF n >= 2 /\ text[1] = <<"{">> /\ text[n] = <<"}">> /\ (m = 0 \/ wellFormed)
        THEN [ ok |-> TRUE, kind |-> "object",
               value |-> [ j \in 1..((m + 1) \div 4) |->
                             <<inner[4 * j - 3][2], inner[4 * j - 1]>> ] ]
        ELSE [ ok |-> FALSE, kind |-> "SyntaxError", value |-> <<>> ]

\* WebRTCService constructor, lines 8-15.  peer is the index of a SimplePeer
\* in peers, 0 for null; a handler field is TRUE once a function is assigned.
InitChannel ==
    [ peer |-> 0, isConnected |-> FALSE, isInitiator |-> FALSE,
      onAudioData |-> FALSE, onConnectionStateChange |-> FALSE, onError |-> FALSE ]

\* A channel world is the service's fields (ch), every SimplePeer created
\* (peers), and what the running handler did: the data the transport
\* transmitted (tx), the handler calls (calls), the console lines (log) and
\* whether an error left the handler (raised).
ChanWorld == [ ch |-> channel, peers |-> peers, tx |-> <<>>, calls |-> <<>>,
               log |-> <<>>, raised |-> FALSE ]

\* SimplePeer.send: transmits on an open data channel, throws otherwise.
PeerSend(cw, p, data) ==
    IF cw.peers[p] = "connected"
    THEN [ cw EXCEPT !.tx = Append(@, [ peer |-> p, data |-> data ]) ]
    ELSE [ cw EXCEPT !.raised = TRUE ]

\* A catch block that logs, lines 122-124, 147-149, 208-210.
Caught(cw, line) ==
    IF cw.raised THEN [ cw EXCEPT !.raised = FALSE, !.log = Append(@, line) ] ELSE cw

sendMessage_noGuard(cw, message) ==
    IF cw.ch.peer = 0
    THEN Caught([ cw EXCEPT !.raised = TRUE ], "Failed to send message")
    ELSE Caught(PeerSend(cw, cw.ch.peer, TextEncode(JSONstringify(message))),
                "Failed to send message")

\* sendMessage, lines 200-211.
sendMessage(cw, message) ==
    IF ~cw.ch.isConnected \/ cw.ch.peer = 0 THEN cw
    ELSE Caught(PeerSend(cw, cw.ch.peer, TextEncode(JSONstringify(message))),
                "Failed to send message")

\* sendTranscript, lines 157-170.
sendTranscript(cw, transcript, language, now) ==
    IF ~cw.ch.isConnected \/ cw.ch.peer = 0 THEN cw
    ELSE sendMessage(cw, << <<"type", Str("transcript")>>, <<"text", transcript>>,
                            <<"language", language>>, <<"timestamp", Num(now)>> >>)

\* sendTranslation, lines 179-194.
sendTranslation(cw, originalText, translatedText, sourceLang, targetLang, now) ==
    IF ~cw.ch.isConnected \/ cw.ch.peer = 0 THEN cw
    ELSE sendMessage(cw, << <<"type", Str("translation")>>,
                            <<"original", originalText>>,
                            <<"translated", translatedText>>,
                            <<"sourceLang", sourceLang>>,
                            <<"targetLang", targetLang>>,
                            <<"timestamp", Num(now)>> >>)

\* The guard of sendAudio, lines 132-134: whether the conversion is started.
sendAudioStarts(cw) == ~(~cw.ch.isConnected \/ cw.ch.peer = 0)

\* The callback given to then() in sendAudio, lines 138-146.
sendAudioThen(cw, base64, now) ==
    sendMessage(cw, << <<"type", Str("audio")>>, <<"audio", base64>>,
                       <<"timestamp", Num(now)>> >>)

\* The body of the try block of handleData, lines 105-121.
handleDataTry(cw, data) ==
    LET parsed == JSONparse(TextDecode(data))
        message == parsed.value
        type == Get(message, "type")
    IN  IF ~parsed.ok \/ parsed.kind = "null" THEN [ cw EXCEPT !.raised = TRUE ]
        ELSE IF parsed.kind = "object" /\ type = Str("audio")
        THEN IF cw.ch.onAudioData
             THEN [ cw EXCEPT !.calls = Append(@, [ handler |-> "onAudioData",
                                                    arg |-> Get(message, "audio") ]) ]
             ELSE cw
        ELSE IF parsed.kind = "object" /\ type \in { Str("transcript"), Str("translation") }
        THEN cw
        ELSE [ cw EXCEPT !.log = Append(@, "Unknown message type") ]

\* handleData without its catch.
handleData_noCatch(cw, data) == handleDataTry(cw, data)

\* handleData, lines 103-125.
handleData(cw, data) == Caught(handleDataTry(cw, data), "Failed to parse message")

\* initialize, lines 22-76: a new SimplePeer, wired to this service.
initialize(cw, isInitiator) ==
    [ cw EXCEPT !.ch.isInitiator = isInitiator,
                !.peers = Append(@, "connecting"),
                !.ch.peer = Len(cw.peers) + 1 ]

\* The 'connect' listener, lines 44-50.
onConnect(cw) ==
    LET c1 == [ cw EXCEPT !.log = Append(@, "WebRTC connection established"),
                          !.ch.isConnected = TRUE ]
    IN  IF c1.ch.onConnectionStateChange
        THEN [ c1 EXCEPT !.calls = Append(@, [ handler |-> "onConnectionStateChange",
                                               arg |-> Str("connected") ]) ]
        ELSE c1

\* The 'close' listener, lines 63-69.
onClose(cw) ==
    LET c1 == [ cw EXCEPT !.log = Append(@, "WebRTC connection closed"),
                          !.ch.isConnected = FALSE ]
    IN  IF c1.ch.onConnectionStateChange
        THEN [ c1 EXCEPT !.calls = Append(@, [ handler |-> "onConnectionStateChange",
                                               arg |-> Str("disconnected") ]) ]
        ELSE c1

\* The 'error' listener, lines 56-61.
onPeerError(cw) ==
    IF cw.ch.onError
    THEN [ cw EXCEPT !.calls = Append(@, [ handler |-> "onError", arg |-> Str("error") ]) ]
    ELSE cw

\* SimplePeer.destroy: the peer stops; its 'close' event follows.
PeerDestroy(cw, p) ==
    IF cw.peers[p] \in { "connecting", "connected" }
    THEN [ cw EXCEPT !.peers[p] = "destroyed" ]
    ELSE cw

\* disconnect that leaves the flag as it is.
disconnect_keepFlag(cw) ==
    IF cw.ch.peer # 0
    THEN [ PeerDestroy(cw, cw.ch.peer) EXCEPT !.ch.peer = 0 ]
    ELSE cw

\* disconnect, lines 263-269.
disconnect(cw) ==
    LET c1 == IF cw.ch.peer # 0
              THEN [ PeerDestroy(cw, cw.ch.peer) EXCEPT !.ch.peer = 0 ]
              ELSE cw
    IN  [ c1 EXCEPT !.ch.isConnected = FALSE ]

\* The base64 alphabet of readAsDataURL and atob.
B64 ==
    << "A", "B", "C", "D", "E", "F", "G", "H", "I", "J", "K", "L", "M", "N", "O", "P",
       "Q", "R", "S", "T", "U", "V", "W", "X", "Y", "Z", "a", "b", "c", "d", "e", "f",
       "g", "h", "i", "j", "k", "l", "m", "n", "o", "p", "q", "r", "s", "t", "u", "v",
       "w", "x", "y", "z", "0", "1", "2", "3", "4", "5", "6", "7", "8", "9", "+", "/" >>

B64Index(c) == CHOOSE k \in 1..64 : B64[k] = c

\* Base64 of a byte sequence: three bytes give four characters, a last group
\* of one or two bytes is padded with '='.
RECURSIVE Base64Encode(_)
Base64Encode(bytes) ==
    IF bytes = <<>> THEN <<>>
    ELSE LET k == IF Len(bytes) >= 3 THEN 3 ELSE Len(bytes)
             b2 == IF k >= 2 THEN bytes[2] ELSE 0
             b3 == IF k >= 3 THEN bytes[3] ELSE 0
             n == bytes[1] * 65536 + b2 * 256 + b3
             c1 == B64[n \div 262144 + 1]
             c2 == B64[((n \div 4096) % 64) + 1]
             c3 == IF k >= 2 THEN B64[((n \div 64) % 64) + 1] ELSE "="
             c4 == IF k >= 3 THEN B64[(n % 64) + 1] ELSE "="
         IN  <<c1, c2, c3, c4>> \o Base64Encode(SubSeq(bytes, k + 1, Len(bytes)))

\* FileReader.readAsDataURL of a Blob, lines 220-225.
readAsDataURL(blob) ==
    <<"d", "a", "t", "a", ":">> \o blob.type
    \o <<";", "b", "a", "s", "e", "6", "4", ",">> \o Base64Encode(blob.bytes)

\* convertAudioToBase64, lines 218-232: the value the promise resolves with;
\* rejected is TRUE for a value that is neither Blob nor ArrayBuffer.
convertAudioToBase64(audioData) ==
    IF audioData.kind = "Blob"
    THEN [ rejected |-> FALSE, value |-> readAsDataURL(audioData) ]
    ELSE IF audioData.kind = "ArrayBuffer"
    THEN [ rejected |-> FALSE,
           value |-> readAsDataURL([ kind |-> "Blob",
                                     type |-> <<"a", "u", "d", "i", "o", "/", "w", "a", "v">>,
                                     bytes |-> audioData.bytes ]) ]
    ELSE [ rejected |-> TRUE, value |-> <<>> ]

\* String.prototype.split(','): the pieces between the commas.
RECURSIVE SplitComma(_, _)
SplitComma(str, piece) ==
    IF str = <<>> THEN <<piece>>
    ELSE IF Head(str) = "," THEN <<piece>> \o SplitComma(Tail(str), <<>>)
    ELSE SplitComma(Tail(str), Append(piece, Head(str)))

\* atob: ok is FALSE where it throws InvalidCharacterError.
RECURSIVE AtobGroups(_)
AtobGroups(chars) ==
    IF Len(chars) < 2 THEN <<>>
    ELSE LET k == IF Len(chars) >= 4 THEN 4 ELSE Len(chars)
             s(i) == IF i <= k THEN B64Index(chars[i]) - 1 ELSE 0
             n == s(1) * 262144 + s(2) * 4096 + s(3) * 64 + s(4)
             bytes == <<n \div 65536, (n \div 256) % 256, n % 256>>
         IN  SubSeq(bytes, 1, k - 1) \o AtobGroups(SubSeq(chars, k + 1, Len(chars)))

atob(str) ==
    LET n == Len(str)
        pad == IF n % 4 = 0 /\ n >= 2 /\ str[n] = "="
               THEN (IF str[n - 1] = "=" THEN 2 ELSE 1) ELSE 0
        chars == SubSeq(str, 1, n - pad)
    IN  IF (\A k \in 1..Len(chars) : \E j \in 1..64 : B64[j] = chars[k])
           /\ Len(chars) % 4 # 1
        THEN [ ok |-> TRUE, bytes |-> AtobGroups(chars) ]
        ELSE [ ok |-> FALSE, bytes |-> <<>> ]

\* convertBase64ToAudio that decodes the whole string.
convertBase64ToAudio_wholeUrl(base64) ==
    LET decoded == atob(base64)
    IN  [ raised |-> ~decoded.ok,
          blob |-> [ kind |-> "Blob", type |-> <<"a", "u", "d", "i", "o", "/", "w", "a", "v">>,
                     bytes |-> decoded.bytes ] ]

\* convertBase64ToAudio, lines 239-249: the piece after the first comma is
\* decoded; without a comma that piece is undefined, which atob reads as the
\* text "undefined" and rejects.
convertBase64ToAudio(base64) ==
    LET pieces == SplitComma(base64, <<>>)
        decoded == IF Len(pieces) >= 2 THEN atob(pieces[2])
                   ELSE [ ok |-> FALSE, bytes |-> <<>> ]
    IN  [ raised |-> ~decoded.ok,
          blob |-> [ kind |-> "Blob", type |-> <<"a", "u", "d", "i", "o", "/", "w", "a", "v">>,
                     bytes |-> decoded.bytes ] ]

\* getConnectionState, lines 255-258; peer.connected is true from the
\* peer's 'connect' until it closes or is destroyed.
getConnectionState(cw) ==
    IF cw.ch.peer = 0 THEN "disconnected"
    ELSE IF cw.peers[cw.ch.peer] = "connected" THEN "connected" ELSE "connecting"

----------------------------------------------------------------------------
(* audioUtils.js and App.jsx *)

\* App after initializeServices, lines 19-38 and 45-108: the React state and
\* the AudioPlayback instance, whose initialize() App never calls.
InitApp ==
    [ error |-> FALSE, isCallActive |-> FALSE, isConnected |-> FALSE,
      isRecording |-> FALSE, isPlaying |-> FALSE,
      transcripts |-> 0, translations |-> 0,
      playback |-> [ audioContext |-> FALSE, isPlaying |-> FALSE ] ]

\* The handleAudioData of one render, lines 111-153: the isCallActive and
\* isRecording that render saw.
NoCallback == [ set |-> FALSE, isCallActive |-> FALSE, isRecording |-> FALSE ]
HandleAudioDataOf(a) ==
    [ set |-> TRUE, isCallActive |-> a.isCallActive, isRecording |-> a.isRecording ]

\* AudioCapture constructor, audioUtils.js lines 163-169.  mediaRecorder is
\* the index of the current MediaRecorder in recorders, 0 for null; a
\* replaced recorder keeps its listener.
InitCapture ==
    [ onAudioData |-> NoCallback, mediaRecorder |-> 0, isRecording |-> FALSE,
      recorders |-> <<>>, initializing |-> FALSE, isInitiator |-> FALSE ]

\* MediaRecorder.stop() of recorder r.  On an inactive recorder it raises
\* InvalidStateError in the browsers that follow the older specification
\* (strict) and does nothing in the others.
RecorderStop(cap, r, strict) ==
    IF cap.recorders[r] = "recording"
    THEN [ cap |-> [ cap EXCEPT !.recorders[r] = "inactive" ], raised |-> FALSE ]
    ELSE [ cap |-> cap, raised |-> strict ]

\* AudioCapture.startRecording, lines 218-223.
captureStartRecording(cap) ==
    IF cap.mediaRecorder # 0 /\ ~cap.isRecording
    THEN [ cap EXCEPT !.recorders[cap.mediaRecorder] = "recording",
                      !.isRecording = TRUE ]
    ELSE cap

\* AudioCapture.stopRecording, lines 228-233.
captureStopRecording(cap, strict) ==
    IF cap.mediaRecorder # 0 /\ cap.isRecording
    THEN LET r == RecorderStop(cap, cap.mediaRecorder, strict)
         IN  IF r.raised THEN r
             ELSE [ cap |-> [ r.cap EXCEPT !.isRecording = FALSE ], raised |-> FALSE ]
    ELSE [ cap |-> cap, raised |-> FALSE ]

\* AudioCapture.cleanup, lines 261-271: stopping the tracks and closing the
\* context changes no field.
captureCleanup(cap, strict) ==
    IF cap.mediaRecorder # 0 THEN RecorderStop(cap, cap.mediaRecorder, strict)
    ELSE [ cap |-> cap, raised |-> FALSE ]

\* AudioPlayback.playAudio, lines 302-305: rejects without a context.
playAudioRejects(playback) == ~playback.audioContext

\* The handlers App assigns in startCall, lines 198-201, applied to the
\* calls a channel handler made: handlePeerAudio (lines 156-165) catches the
\* rejection of playAudio and changes no state.
AppAfter(a, calls) ==
    LET states == SelectSeq(calls, LAMBDA c : c.handler = "onConnectionStateChange")
    IN  IF states = <<>> THEN a
        ELSE [ a EXCEPT !.isConnected = (Last(states).arg = Str("connected")) ]

----------------------------------------------------------------------------
(* The channel driven by its caller and by the transport.                  *)

ChannelConnected == channel.isConnected /\ channel.peer # 0

\* Date.now(), as a logical time.
Now == Len(sends) + Len(wire) + 1

\* Envelopes a peer sends, one of each type, as the send side encodes them.
AudioEnvelope ==
    << <<"type", Str("audio")>>, <<"audio", Str("data:audio/wav;base64,AP8Q")>>,
       <<"timestamp", Num(1)>> >>
TranscriptEnvelope ==
    << <<"type", Str("transcript")>>, <<"text", Str("hello")>>,
       <<"language", Str("en")>>, <<"timestamp", Num(2)>> >>
TranslationEnvelope ==
    << <<"type", Str("translation")>>, <<"original", Str("hello")>>,
       <<"translated", Str("hola")>>, <<"sourceLang", Str("en")>>,
       <<"targetLang", Str("es")>>, <<"timestamp", Num(3)>> >>

Encoded(obj) == TextEncode(JSONstringify(obj))

\* Received data by class: the three well-formed envelopes, valid JSON with
\* an unknown or missing type, and bytes that are no envelope encoding.
RecvData ==
    [ audio |-> { Encoded(AudioEnvelope) },
      transcript |-> { Encoded(TranscriptEnvelope) },
      translation |-> { Encoded(TranslationEnvelope) },
      unknown |-> { Encoded(<< <<"type", Str("ping")>>, <<"timestamp", Num(1)>> >>),
                    Encoded(<< <<"timestamp", Num(1)>> >>),
                    TextEncode(<<Num(5)>>) },
      malformed |-> { <<>>,
                      TextEncode(<<JsNull>>),
                      SubSeq(Encoded(AudioEnvelope), 1, 4),
                      Encoded(AudioEnvelope) \o <<<<"utf8", "}">>>>,
                      <<<<"0xFF">>>> } ]

InitReceived ==
    [ class |-> "none", calls |-> <<>>, raised |-> FALSE, stateKept |-> TRUE,
      listening |-> FALSE, afterDrop |-> FALSE ]

\* History of the latest channel handler: the listener that ran ("connect",
\* "close" or "none"), whether the event came from a peer that disconnect()
\* had destroyed, what getConnectionState() returned before the handler, and
\* the last state-change notification made so far ("none" before the first).
InitLink ==
    [ event |-> "none", ofDestroyed |-> FALSE, before |-> "disconnected",
      notified |-> "none" ]

LinkAfter(cw) ==
    LET states == SelectSeq(cw.calls, LAMBDA c : c.handler = "onConnectionStateChange")
    IN  [ event |-> IF "WebRTC connection closed" \in Range(cw.log) THEN "close"
                    ELSE IF "WebRTC connection established" \in Range(cw.log)
                    THEN "connect" ELSE "none",
          ofDestroyed |-> \E p \in 1..Len(peers) :
                             peers[p] = "destroyed" /\ cw.peers[p] = "closed",
          before |-> getConnectionState(ChanWorld),
          notified |-> IF states = <<>> THEN link.notified
                       ELSE Last(states).arg[2] ]

\* What a handler of the channel leaves behind.
ChanFinish(cw) ==
    /\ channel' = cw.ch
    /\ peers' = cw.peers
    /\ wire' = wire \o cw.tx
    /\ link' = LinkAfter(cw)

\* The caller initializes the channel (again).
Initialize ==
    /\ Len(peers) < MaxPeers
    /\ \E isInitiator \in BOOLEAN : ChanFinish(initialize(ChanWorld, isInitiator))
    /\ UNCHANGED <<conversions, sends, received, lsVars, genVars, appVars>>

\* The caller assigns its handlers (App.startCall, lines 198-201).
RegisterHandlers ==
    /\ channel' = [ channel EXCEPT !.onAudioData = TRUE,
                                   !.onConnectionStateChange = TRUE ]
    /\ UNCHANGED <<peers, conversions, sends, wire, received, link, lsVars, genVars, appVars>>

\* The transport of peer p opens.
PeerConnect ==
    \E p \in 1..Len(peers) :
        /\ peers[p] = "connecting"
        /\ LET cw == onConnect([ ChanWorld EXCEPT !.peers[p] = "connected" ])
           IN  ChanFinish(cw) /\ app' = AppAfter(app, cw.calls)
        /\ UNCHANGED <<conversions, sends, received, capture, utterances, lsVars, genVars>>

\* Peer p closes: the remote side left, or its destroy() completes.
PeerClose ==
    \E p \in 1..Len(peers) :
        /\ peers[p] \in { "connecting", "connected", "destroyed" }
        /\ LET cw == onClose([ ChanWorld EXCEPT !.peers[p] = "closed" ])
           IN  ChanFinish(cw) /\ app' = AppAfter(app, cw.calls)
        /\ UNCHANGED <<conversions, sends, received, capture, utterances, lsVars, genVars>>

\* Peer p fails: SimplePeer emits 'error', then 'close'.
PeerError ==
    \E p \in 1..Len(peers) :
        /\ peers[p] \in { "connecting", "connected" }
        /\ LET cw == onClose(onPeerError([ ChanWorld EXCEPT !.peers[p] = "closed" ]))
           IN  ChanFinish(cw) /\ app' = AppAfter(app, cw.calls)
        /\ UNCHANGED <<conversions, sends, received, capture, utterances, lsVars, genVars>>

\* The caller disconnects.
Disconnect ==
    /\ ChanFinish(disconnect(ChanWorld))
    /\ UNCHANGED <<conversions, sends, received, lsVars, genVars, appVars>>

SendRecord(type, cw, pending) ==
    [ type |-> type,
      issuedConnected |-> ChannelConnected,
      completedConnected |-> IF pending THEN "pending"
                             ELSE IF ChannelConnected THEN "yes" ELSE "no",
      transmitted |-> cw.tx # <<>>,
      raised |-> cw.raised,
      rejected |-> FALSE ]

\* The caller sends a transcript, a translation or a message of its own.
SendText ==
    /\ Len(sends) < MaxSends
    /\ \E type \in { "transcript", "translation", "message" } :
        LET cw == CASE type = "transcript" ->
                        sendTranscript(ChanWorld, Str("hello"), Str("en"), Now)
                    [] type = "translation" ->
                        sendTranslation(ChanWorld, Str("hello"), Str("hola"),
                                        Str("en"), Str("es"), Now)
                    [] OTHER ->
                        sendMessage(ChanWorld, << <<"type", Str("ping")>>,
                                                  <<"timestamp", Num(Now)>> >>)
        IN  /\ ChanFinish(cw)
            /\ sends' = Append(sends, SendRecord(type, cw, FALSE))
    /\ UNCHANGED <<conversions, received, lsVars, genVars, appVars>>

\* The kinds of value sendAudio is given: a Blob, an ArrayBuffer, or a value
\* that convertAudioToBase64 does not support.
AudioKinds == { "Blob", "ArrayBuffer", "other" }

\* sendAudio, lines 131-150: past the guard, the conversion starts and the
\* call returns.
SendAudio ==
    /\ Len(sends) < MaxSends
    /\ \E kind \in AudioKinds :
        /\ conversions' = IF sendAudioStarts(ChanWorld)
                          THEN conversions \cup { [ call |-> Len(sends) + 1, kind |-> kind ] }
                          ELSE conversions
        /\ sends' = Append(sends, SendRecord("audio", ChanWorld, sendAudioStarts(ChanWorld)))
    /\ UNCHANGED <<channel, peers, wire, received, link, lsVars, genVars, appVars>>

\* convertAudioToBase64, lines 218-232, resolves: the then() callback runs.
ConversionResolves ==
    \E c \in conversions :
        /\ c.kind \in { "Blob", "ArrayBuffer" }
        /\ LET cw == sendAudioThen(ChanWorld, Str("data:audio/wav;base64,AP8Q"), Now)
           IN  /\ ChanFinish(cw)
               /\ sends' = [ sends EXCEPT ![c.call].completedConnected =
                                              IF ChannelConnected THEN "yes" ELSE "no",
                                          ![c.call].transmitted = cw.tx # <<>>,
                                          ![c.call].raised = cw.raised ]
        /\ conversions' = conversions \ { c }
        /\ UNCHANGED <<received, lsVars, genVars, appVars>>

\* convertAudioToBase64 rejects (unsupported value, or the reader fails): the
\* promise has no rejection handler.
ConversionRejects ==
    \E c \in conversions :
        /\ sends' = [ sends EXCEPT ![c.call].completedConnected =
                                       IF ChannelConnected THEN "yes" ELSE "no",
                                   ![c.call].rejected = TRUE ]
        /\ conversions' = conversions \ { c }
        /\ UNCHANGED <<channel, peers, wire, received, link, lsVars, genVars, appVars>>

\* A connected peer delivers data: the 'data' listener, lines 52-54.
HandleData ==
    /\ \E p \in 1..Len(peers) : peers[p] = "connected"
    /\ \E class \in DOMAIN RecvData : \E data \in RecvData[class] :
        LET cw == handleData(ChanWorld, data)
        IN  /\ ChanFinish(cw)
            /\ received' = [ class |-> class, calls |-> cw.calls, raised |-> cw.raised,
                             stateKept |-> cw.ch = channel /\ cw.peers = peers,
                             listening |-> channel.onAudioData,
                             afterDrop |-> received.afterDrop
                                           \/ received.class \in { "unknown", "malformed" } ]
    /\ UNCHANGED <<conversions, sends, lsVars, genVars, appVars>>

\* The channel's life cycle with its send side.
SendNext ==
    \/ Initialize
    \/ PeerConnect
    \/ PeerClose
    \/ PeerError
    \/ Disconnect
    \/ SendText
    \/ SendAudio
    \/ ConversionResolves
    \/ ConversionRejects

\* The channel's life cycle with its receive side.
ReceiveNext ==
    \/ Initialize
    \/ RegisterHandlers
    \/ PeerConnect
    \/ PeerClose
    \/ PeerError
    \/ Disconnect
    \/ HandleData

----------------------------------------------------------------------------
(* The orchestrator driven by its host, the recorder and the services.     *)

UiShown == ~app.error

\* startCall, lines 191-194: the callback is handed to AudioCapture and the
\* microphone is asked for.
StartCall ==
    /\ UiShown
    /\ ~capture.initializing
    /\ Len(capture.recorders) < MaxPeers
    /\ Len(peers) < MaxPeers
    /\ \E isInitiator \in BOOLEAN :
         capture' = [ capture EXCEPT !.onAudioData = HandleAudioDataOf(app),
                                     !.initializing = TRUE,
                                     !.isInitiator = isInitiator ]
    /\ UNCHANGED <<app, utterances, lsVars, genVars, chanVars>>

\* getUserMedia resolves: audioUtils.js lines 191-208, then startCall lines
\* 197-203.
MicGranted ==
    /\ capture.initializing
    /\ capture' = [ capture EXCEPT !.initializing = FALSE,
                                   !.recorders = Append(@, "inactive"),
                                   !.mediaRecorder = Len(capture.recorders) + 1 ]
    /\ LET c1 == initialize(ChanWorld, capture.isInitiator)
           c2 == [ c1 EXCEPT !.ch.onAudioData = TRUE,
                             !.ch.onConnectionStateChange = TRUE ]
       IN  ChanFinish(c2)
    /\ app' = [ app EXCEPT !.isCallActive = TRUE ]
    /\ UNCHANGED <<utterances, conversions, sends, received, lsVars, genVars>>

\* getUserMedia rejects: audioUtils.js lines 209-212, then startCall lines
\* 204-207.
MicDenied ==
    /\ capture.initializing
    /\ capture' = [ capture EXCEPT !.initializing = FALSE ]
    /\ app' = [ app EXCEPT !.error = TRUE ]
    /\ UNCHANGED <<utterances, lsVars, genVars, chanVars>>

\* startRecording, lines 224-227.
StartRecording ==
    /\ UiShown
    /\ capture' = captureStartRecording(capture)
    /\ app' = [ app EXCEPT !.isRecording = TRUE ]
    /\ UNCHANGED <<utterances, lsVars, genVars, chanVars>>

\* stopRecording, lines 230-233.
StopRecording ==
    /\ UiShown
    /\ \E strict \in BOOLEAN :
        LET r == captureStopRecording(capture, strict)
        IN  /\ capture' = r.cap
            /\ app' = IF r.raised THEN app ELSE [ app EXCEPT !.isRecording = FALSE ]
    /\ UNCHANGED <<utterances, lsVars, genVars, chanVars>>

Awaiting(u) == u.pc # "done"

\* endCall, lines 211-221.  An error raised by a step leaves the handler
\* there.
EndCall ==
    /\ UiShown
    /\ \E strict \in BOOLEAN :
        LET r1 == captureStopRecording(capture, strict)
            r2 == captureCleanup(r1.cap, strict)
            cw == disconnect(ChanWorld)
            w == stopLipSync(World)
        IN  IF r1.raised \/ r2.raised
            THEN /\ capture' = IF r1.raised THEN r1.cap ELSE r2.cap
                 /\ UNCHANGED <<app, utterances, lsVars, chanVars>>
            ELSE /\ capture' = r2.cap
                 /\ ChanFinish(cw)
                 /\ Finish(w, "stop")
                 /\ play' = [ play EXCEPT !.aborted = @ \/ lipSync.isPlaying ]
                 /\ app' = [ app EXCEPT !.isCallActive = FALSE, !.isConnected = FALSE,
                                        !.isRecording = FALSE, !.isPlaying = FALSE ]
                 /\ utterances' = [ u \in 1..Len(utterances) |->
                                      [ utterances[u] EXCEPT
                                          !.cancelled = @ \/ Awaiting(utterances[u]) ] ]
                 /\ UNCHANGED <<clock, conversions, sends, received>>
    /\ UNCHANGED genVars

\* A recording MediaRecorder delivers a chunk (audioUtils.js lines 202-206)
\* to handleAudioData, lines 111-119: past the guard of line 112 the chunk is
\* sent to the peer and its arrayBuffer() awaited.
DataAvailable ==
    /\ \E r \in 1..Len(capture.recorders) : capture.recorders[r] = "recording"
    /\ capture.onAudioData.set
    /\ ~(~capture.onAudioData.isCallActive \/ ~capture.onAudioData.isRecording)
    /\ Len(utterances) < MaxUtterances
    /\ Len(sends) < MaxSends
    /\ conversions' = IF sendAudioStarts(ChanWorld)
                      THEN conversions \cup { [ call |-> Len(sends) + 1, kind |-> "Blob" ] }
                      ELSE conversions
    /\ sends' = Append(sends, SendRecord("audio", ChanWorld, sendAudioStarts(ChanWorld)))
    /\ utterances' = Append(utterances,
                            [ pc |-> "arrayBuffer", cancelled |-> FALSE, late |-> {},
                              log |-> <<>> ])
    /\ UNCHANGED <<app, capture, channel, peers, wire, received, link, lsVars, genVars>>

\* What an awaited service call settles with: a value, an empty value, or a
\* rejection.
Outcomes == { "value", "empty", "error" }

Effect(u, name) ==
    [ u EXCEPT !.late = IF u.cancelled THEN @ \cup { name } ELSE @ ]

\* The stage whose call follows the result of a stage, lines 126, 136, 139.
StageAfter(stage) ==
    CASE stage = "stt" -> "mt"
      [] stage = "mt" -> "tts"
      [] OTHER -> "play"

resume_ignoreEmpty(u, outcome) ==
    IF outcome = "value"
    THEN [ u EXCEPT !.pc = StageAfter(u.pc),
                    !.log = @ \o << <<u.pc, "result">>, <<StageAfter(u.pc), "start">> >> ]
    ELSE IF outcome = "empty"
    THEN [ u EXCEPT !.pc = StageAfter(u.pc),
                    !.log = @ \o << <<StageAfter(u.pc), "start">> >> ]
    ELSE [ u EXCEPT !.pc = "done" ]

\* handleAudioData past the await of a stage, lines 120-139: with a result
\* (the tests of lines 122, 131, 138) the next stage is called; with none, or
\* with a rejection (line 150), nothing more is.  log is the history of the
\* calls made and the results obtained.
resume(u, outcome) ==
    IF outcome = "value"
    THEN [ u EXCEPT !.pc = StageAfter(u.pc),
                    !.log = @ \o << <<u.pc, "result">>, <<StageAfter(u.pc), "start">> >> ]
    ELSE [ u EXCEPT !.pc = "done" ]

\* audioBlob.arrayBuffer() resolves; transcribe is called, lines 119-120.
ArrayBufferResolves ==
    \E u \in 1..Len(utterances) :
        /\ utterances[u].pc = "arrayBuffer"
        /\ utterances' = [ utterances EXCEPT ![u].pc = "stt",
                                             ![u].log = << <<"stt", "start">> >> ]
        /\ UNCHANGED <<app, capture, lsVars, genVars, chanVars>>

\* transcribe settles, lines 120-130; a rejection goes to the catch of line
\* 150.
SttSettles ==
    \E u \in 1..Len(utterances), outcome \in Outcomes :
        /\ utterances[u].pc = "stt"
        /\ IF outcome = "value"
           THEN /\ app' = [ app EXCEPT !.transcripts = @ + 1 ]
                /\ utterances' = [ utterances EXCEPT
                                     ![u] = resume(Effect(@, "transcript"), outcome) ]
           ELSE /\ utterances' = [ utterances EXCEPT ![u] = resume(@, outcome) ]
                /\ UNCHANGED app
        /\ UNCHANGED <<capture, lsVars, genVars, chanVars>>

\* translate settles, lines 126-136.
MtSettles ==
    \E u \in 1..Len(utterances), outcome \in Outcomes :
        /\ utterances[u].pc = "mt"
        /\ IF outcome = "value"
           THEN /\ app' = [ app EXCEPT !.translations = @ + 1 ]
                /\ utterances' = [ utterances EXCEPT
                                     ![u] = resume(Effect(@, "translation"), outcome) ]
           ELSE /\ utterances' = [ utterances EXCEPT ![u] = resume(@, outcome) ]
                /\ UNCHANGED app
        /\ UNCHANGED <<capture, lsVars, genVars, chanVars>>

\* synthesize settles, lines 136-139: playAudio is called with the audio and
\* rejects, which the catch of line 150 receives; lines 141-146 would follow
\* a playAudio that resolves.
TtsSettles ==
    \E u \in 1..Len(utterances), outcome \in Outcomes :
        /\ utterances[u].pc = "tts"
        /\ utterances' = [ utterances EXCEPT
                             ![u] = [ resume(@, outcome) EXCEPT
                                        !.pc = IF outcome = "value"
                                                  /\ ~playAudioRejects(app.playback)
                                               THEN "play" ELSE "done" ] ]
        /\ UNCHANGED <<app, capture, lsVars, genVars, chanVars>>

\* The transport events with App's handlers applied are PeerConnect and
\* PeerClose; the conversions of sendAudio are ConversionResolves and
\* ConversionRejects.
AppNext ==
    \/ StartCall
    \/ MicGranted
    \/ MicDenied
    \/ StartRecording
    \/ StopRecording
    \/ EndCall
    \/ DataAvailable
    \/ ArrayBufferResolves
    \/ SttSettles
    \/ MtSettles
    \/ TtsSettles
    \/ PeerConnect
    \/ PeerClose
    \/ ConversionResolves
    \/ ConversionRejects

----------------------------------------------------------------------------
(* Single calls of the services' functions: the arguments are drawn in the  *)
(* initial state, one action applies the function.                          *)

\* A channel after initialize() and the peer's 'connect'.
ConnectedWorld ==
    LET c1 == initialize([ ChanWorld EXCEPT !.ch = InitChannel, !.peers = <<>> ], TRUE)
    IN  [ onConnect([ c1 EXCEPT !.peers[1] = "connected" ]) EXCEPT !.log = <<>> ]

\* Argument values of the text envelopes.
FieldValues == { Str("hello"), Str(""), JsNull, JsUndefined }

\* Binary payloads: up to MaxBytes bytes out of 0x00, 0xFF, 0x10.
PayloadBytes == { 0, 255, 16 }
Payloads == UNION { [ 1..n -> PayloadBytes ] : n \in 0..MaxBytes }

\* The Blob types in use: MediaRecorder's (audioUtils.js line 198) and the
\* one given to an ArrayBuffer (webrtc.js line 227).
BlobTypes ==
    { <<"a", "u", "d", "i", "o", "/", "w", "e", "b", "m", ";",
        "c", "o", "d", "e", "c", "s", "=", "o", "p", "u", "s">>,
      <<"a", "u", "d", "i", "o", "/", "w", "a", "v">> }

AudioValues ==
    [ kind : { "Blob" }, type : BlobTypes, bytes : Payloads ]
    \cup [ kind : { "ArrayBuffer" }, bytes : Payloads ]
    \cup { [ kind |-> "other" ] }

ChannelCalls ==
    [ fn : { "sendTranscript" }, transcript : FieldValues,
      language : { Str("en"), Str("es") }, now : 1..2 ]
    \cup [ fn : { "sendTranslation" }, originalText : FieldValues,
           translatedText : FieldValues, now : 1..2 ]
    \cup [ fn : { "sendAudio" }, audioData : AudioValues, now : 1..2 ]

\* What the receiving side decodes from what a send transmitted: handleData
\* line 105, and for audio handlePeerAudio, App.jsx line 158.
Received(cw, audio) ==
    IF cw.tx = <<>> THEN [ done |-> TRUE, transmitted |-> FALSE ]
    ELSE LET parsed == JSONparse(TextDecode(cw.tx[1].data))
         IN  [ done |-> TRUE, transmitted |-> TRUE, ok |-> parsed.ok,
               message |-> parsed.value,
               audio |-> IF audio /\ parsed.ok
                         THEN convertBase64ToAudio(Get(parsed.value, "audio")[2])
                         ELSE [ raised |-> FALSE,
                                blob |-> [ kind |-> "none", type |-> <<>>, bytes |-> <<>> ] ] ]

\* sendTranscript on a Connected channel, and the peer's decoding.
RoundTripTranscript ==
    /\ call.fn = "sendTranscript"
    /\ result = NotDone
    /\ result' = Received(sendTranscript(ConnectedWorld, call.transcript,
                                         call.language, call.now), FALSE)
    /\ UNCHANGED <<genInput, genOutput, call, dictVars, lsVars, chanVars, appVars>>

\* sendTranslation on a Connected channel, and the peer's decoding.
RoundTripTranslation ==
    /\ call.fn = "sendTranslation"
    /\ result = NotDone
    /\ result' = Received(sendTranslation(ConnectedWorld, call.originalText,
                                          call.translatedText, Str("en"), Str("es"),
                                          call.now), FALSE)
    /\ UNCHANGED <<genInput, genOutput, call, dictVars, lsVars, chanVars, appVars>>

\* sendAudio on a Connected channel with the conversion resolved (lines
\* 136-146), and the peer's decoding.
RoundTripAudio ==
    /\ call.fn = "sendAudio"
    /\ result = NotDone
    /\ LET base64 == convertAudioToBase64(call.audioData)
       IN  result' = IF base64.rejected THEN Received(ConnectedWorld, TRUE)
                     ELSE Received(sendAudioThen(ConnectedWorld, Str(base64.value),
                                                 call.now), TRUE)
    /\ UNCHANGED <<genInput, genOutput, call, dictVars, lsVars, chanVars, appVars>>

\* Texts of the timeline calls: those of the generator, and "hello".
Hello == <<"h", "e", "l", "l", "o">>
TimelineTexts == GenTexts \cup { Hello }

\* Durations: 1.0 s and the default 2.0 s.
Durations == { 60, 120 }

TimelineCalls ==
    [ fn : { "generateLipSyncFromText" }, text : TimelineTexts,
      language : Languages, duration : Durations ]

\* generateLipSyncFromText(text, language, duration) is called.
GenerateLipSyncFromText ==
    /\ call.fn = "generateLipSyncFromText"
    /\ result = NotDone
    /\ result' = [ done |-> TRUE,
                   events |-> generateLipSyncFromText(call.text, call.language,
                                                      call.duration) ]
    /\ UNCHANGED <<genInput, genOutput, call, dictVars, lsVars, chanVars, appVars>>

----------------------------------------------------------------------------
(* The greedy decoders of the speech-to-text service (stt.js) and of the   *)
(* translation service (mt.js): decodeOutput, argmax, tokensToText.        *)

Symbols == { "<sos>", "<eos>", "<unk>", "hola" }

\* The sequences of 1..n different elements of a set.
RECURSIVE DistinctSeqs(_, _)
DistinctSeqs(set, n) ==
    IF n = 0 THEN { <<>> }
    ELSE LET shorter == DistinctSeqs(set, n - 1)
         IN  { <<x>> : x \in set }
             \cup { Append(q, x) : q \in { r \in shorter : r # <<>> }, x \in set }

SymbolLists ==
    { q \in DistinctSeqs(Symbols, MaxVocab) :
        q # <<>> /\ \A i, j \in 1..Len(q) : q[i] = q[j] => i = j }

\* this.vocab is what vocabResponse.json() gave (stt.js 24-25, mt.js 30-34).
\* STTService reads it as an array of symbols (vocab[token], vocab.length):
\* kind "array", items[k] is the symbol of id k - 1.  MTService reads it as
\* an object from symbols to ids (vocab['<sos>'], vocab[word],
\* Object.entries) and as an array (vocab.length): kind "object" has the
\* property items[k] with the value k - 1.
SttVocabs == [ kind : { "array" }, items : SymbolLists ]
MtVocabs == [ kind : { "array", "object" }, items : SymbolLists ]

\* The values of the model's output, and the outputs.
LogitValues == { 0, 1 }

RECURSIVE OutputsUpTo(_)
OutputsUpTo(n) ==
    IF n = 0 THEN { <<>> }
    ELSE LET shorter == OutputsUpTo(n - 1)
         IN  shorter \cup { Append(q, v) : q \in shorter, v \in LogitValues }

Outputs == OutputsUpTo(MaxLogits)

\* A number that is undefined or NaN: i + undefined is NaN, NaN < n is
\* false, and no index or id equals it.
NoNumber == -1

\* this.vocab.length: the length of an array, undefined for an object.
vocabLength(vocab) ==
    IF vocab.kind = "array" THEN Len(vocab.items) ELSE NoNumber

\* this.vocab[word] for a symbol: the id an object gives it, undefined for
\* an array and for an object without that property.
vocabId(vocab, word) ==
    IF vocab.kind = "object" /\ \E k \in 1..Len(vocab.items) : vocab.items[k] = word
    THEN (CHOOSE k \in 1..Len(vocab.items) : vocab.items[k] = word) - 1
    ELSE NoNumber

\* this.vocab[token] for a token id: the element of an array, undefined
\* past its end and for an object (no symbol is the text of a number).
vocabSymbol(vocab, token) ==
    IF vocab.kind = "array" /\ token + 1 \in 1..Len(vocab.items)
    THEN vocab.items[token + 1]
    ELSE Undefined

\* TypedArray.prototype.slice(begin, end): the elements of indices
\* begin..end-1 that exist; an end of NaN is 0.
slice(output, begin, end) ==
    LET final == IF end = NoNumber THEN 0
                 ELSE IF end > Len(output) THEN Len(output) ELSE end
        count == IF final > begin THEN final - begin ELSE 0
    IN  [ k \in 1..count |-> output[begin + k] ]

\* The loop of argmax (stt.js 274-279, mt.js 163-168) from index i.
RECURSIVE argmaxFrom(_, _, _, _)
argmaxFrom(array, i, maxIndex, maxValue) ==
    IF ~(i < Len(array)) THEN maxIndex
    ELSE IF array[i + 1] > maxValue
    THEN argmaxFrom(array, i + 1, i, array[i + 1])
    ELSE argmaxFrom(array, i + 1, maxIndex, maxValue)

\* argmax, stt.js 270-282 and mt.js 159-171: 0 for an empty array, whose
\* loop does not run.
argmax(array) ==
    IF Len(array) = 0 THEN 0 ELSE argmaxFrom(array, 1, 0, array[1])

\* Array.prototype.join(' ') and String.prototype.trim on a text of symbols
\* and spaces.
join(words) ==
    [ k \in 1..(IF Len(words) = 0 THEN 0 ELSE 2 * Len(words) - 1) |->
        IF k % 2 = 1 THEN words[(k + 1) \div 2] ELSE " " ]

RECURSIVE trimStart(_)
trimStart(text) ==
    IF text # <<>> /\ Head(text) = " " THEN trimStart(Tail(text)) ELSE text

RECURSIVE trimEnd(_)
trimEnd(text) ==
    IF text # <<>> /\ Last(text) = " "
    THEN trimEnd(SubSeq(text, 1, Len(text) - 1))
    ELSE text

trim(text) == trimEnd(trimStart(text))

\* STTService.tokensToText, stt.js 290-301.
sttTokensToText(vocab, tokens) ==
    LET mapped == [ k \in 1..Len(tokens) |-> vocabSymbol(vocab, tokens[k]) ]
        kept == SelectSeq(mapped, LAMBDA token :
                    /\ token # Undefined /\ token # ""
                    /\ token # "<sos>" /\ token # "<eos>")
    IN  trim(join(kept))

\* The loop of STTService.decodeOutput, stt.js 255-259, from index i.
RECURSIVE sttDecodeFrom(_, _, _, _)
sttDecodeFrom(output, vocabSize, i, tokens) ==
    IF i = NoNumber \/ ~(i < Len(output)) THEN tokens
    ELSE LET next == IF vocabSize = NoNumber THEN NoNumber ELSE i + vocabSize
             logits == slice(output, i, next)
             token == argmax(logits)
         IN  sttDecodeFrom(output, vocabSize, next, Append(tokens, token))

\* STTService.decodeOutput, stt.js 250-263: the token ids and the text.
sttDecodeOutput(vocab, output) ==
    LET tokens == sttDecodeFrom(output, vocabLength(vocab), 0, <<>>)
    IN  [ tokens |-> tokens, text |-> sttTokensToText(vocab, tokens) ]

\* The reverse vocabulary of mt.js 185-188 read at a token id: Object.entries
\* gives [symbol, id] for an object and [text of index, symbol] for an
\* array; the later of two entries with one value wins.
reverseVocab(vocab, token) ==
    LET hits == { k \in 1..Len(vocab.items) :
                    IF vocab.kind = "object" THEN ToString(k - 1) = ToString(token)
                    ELSE vocab.items[k] = ToString(token) }
        last == CHOOSE k \in hits : \A j \in hits : j <= k
    IN  IF hits = {} THEN Undefined
        ELSE IF vocab.kind = "object" THEN vocab.items[last]
        ELSE ToString(last - 1)

\* MTService.tokensToText, mt.js 179-196.
mtTokensToText(vocab, tokens) ==
    LET mapped == [ k \in 1..Len(tokens) |-> reverseVocab(vocab, tokens[k]) ]
        kept == SelectSeq(mapped, LAMBDA word :
                    /\ word # Undefined /\ word # ""
                    /\ word # "<sos>" /\ word # "<eos>" /\ word # "<unk>")
    IN  trim(join(kept))

\* The loop of MTService.decodeOutput, mt.js 138-148, from index i.
RECURSIVE mtDecodeFrom(_, _, _, _)
mtDecodeFrom(vocab, output, i, tokens) ==
    IF i = NoNumber \/ ~(i < Len(output)) THEN tokens
    ELSE LET vocabSize == vocabLength(vocab)
             next == IF vocabSize = NoNumber THEN NoNumber ELSE i + vocabSize
             logits == slice(output, i, next)
             token == argmax(logits)
         IN  IF token = vocabId(vocab, "<eos>") THEN tokens
             ELSE mtDecodeFrom(vocab, output, next, Append(tokens, token))

\* MTService.decodeOutput, mt.js 133-152: the token ids and the text.
mtDecodeOutput(vocab, output) ==
    LET tokens == mtDecodeFrom(vocab, output, 0, <<>>)
    IN  [ tokens |-> tokens, text |-> mtTokensToText(vocab, tokens) ]

DecoderCalls ==
    [ fn : { "STTService.decodeOutput" }, vocab : SttVocabs, output : Outputs ]
    \cup [ fn : { "MTService.decodeOutput" }, vocab : MtVocabs, output : Outputs ]

\* sttService.decodeOutput(output, language) is called.
SttDecodeOutput ==
    /\ call.fn = "STTService.decodeOutput"
    /\ result = NotDone
    /\ LET decoded == sttDecodeOutput(call.vocab, call.output)
       IN  result' = [ done |-> TRUE, tokens |-> decoded.tokens,
                       text |-> decoded.text ]
    /\ UNCHANGED <<genInput, genOutput, call, dictVars, lsVars, chanVars, appVars>>

\* mtService.decodeOutput(output, language) is called.
MtDecodeOutput ==
    /\ call.fn = "MTService.decodeOutput"
    /\ result = NotDone
    /\ LET decoded == mtDecodeOutput(call.vocab, call.output)
       IN  result' = [ done |-> TRUE, tokens |-> decoded.tokens,
                       text |-> decoded.text ]
    /\ UNCHANGED <<genInput, genOutput, call, dictVars, lsVars, chanVars, appVars>>

----------------------------------------------------------------------------
(* The feature extraction of the speech-to-text service (stt.js 84-242):   *)
(* preprocessAudio, resample, computeMelSpectrogram, normalize.  A sample  *)
(* is an integer in units of 1/160 of the step of the captured samples, in *)
(* which the interpolated samples are exact; the rounding of 32-bit and    *)
(* 64-bit floats is not modelled.                                          *)

\* One step of the captured samples.
Unit == 160

\* resample, lines 106-123.  ratio is targetSampleRate / originalSampleRate:
\* audio.length * ratio and i / ratio are computed on the integers, and the
\* fraction is part / targetSampleRate.
resample(audio, targetSampleRate) ==
    LET originalSampleRate == 44100
        newLength == (Len(audio) * targetSampleRate) \div originalSampleRate
    IN  [ k \in 1..newLength |->
            LET scaled == (k - 1) * originalSampleRate
                index1 == scaled \div targetSampleRate
                index2 == IF index1 + 1 < Len(audio) - 1 THEN index1 + 1
                          ELSE Len(audio) - 1
                part == scaled % targetSampleRate
            IN  (audio[index1 + 1] * (targetSampleRate - part)
                   + audio[index2 + 1] * part) \div targetSampleRate ]

\* Locals of computeMelSpectrogram, lines 133-136.
frameSize == 400
hopSize == 160
numMels == 80

\* Math.log(Math.max(sum, 1e-10)) for a sum of 0, line 220, to the integer
\* below it.
LogFloor == -23

\* applyWindow, computePowerSpectrum and applyMelFilterbank, lines 168-224,
\* as far as their result does not depend on floating-point arithmetic: a
\* frame of zeros has power 0 in every bin and so LogFloor in every band.  The
\* bands of another frame are not computed; they are taken to be values above
\* LogFloor that differ from band to band.
melFeatures(frameData) ==
    LET silent == \A n \in 1..Len(frameData) : frameData[n] = 0
    IN  [ mel \in 1..numMels |-> IF silent THEN LogFloor ELSE LogFloor + mel ]

\* The frame loop of computeMelSpectrogram, lines 140-158, from frame on: the
\* features of each frame are copied to the output one frame after the other.
RECURSIVE melFrames(_, _, _)
melFrames(audio, frame, numFrames) ==
    IF ~(frame < numFrames) THEN <<>>
    ELSE melFeatures(slice(audio, frame * hopSize, frame * hopSize + frameSize))
           \o melFrames(audio, frame + 1, numFrames)

\* computeMelSpectrogram, lines 130-161.  new Float32Array(length) throws a
\* RangeError for a negative length (line 138).  frameLengths is the history
\* of the lengths of frameData, line 143.
computeMelSpectrogram(audio) ==
    LET numFrames == ((Len(audio) - frameSize) \div hopSize) + 1
    IN  IF numFrames * numMels < 0
        THEN [ raised |-> TRUE, numFrames |-> numFrames, frameLengths |-> <<>>,
               spectrogram |-> <<>> ]
        ELSE [ raised |-> FALSE, numFrames |-> numFrames,
               frameLengths |-> [ f \in 1..numFrames |->
                                    Len(slice(audio, (f - 1) * hopSize,
                                              (f - 1) * hopSize + frameSize)) ],
               spectrogram |-> melFrames(audio, 0, numFrames) ]

\* The sum of reduce, lines 233-234, over the values from lo to hi.
RECURSIVE SumOf(_, _, _)
SumOf(values, lo, hi) ==
    IF lo > hi THEN 0
    ELSE IF lo = hi THEN values[lo]
    ELSE SumOf(values, lo, (lo + hi) \div 2) + SumOf(values, ((lo + hi) \div 2) + 1, hi)

\* The result of 0 / 0, line 238.
NaN == [ nan |-> TRUE, deviation |-> 0 ]

\* normalize, lines 231-242.  A normalized value (spectrogram[i] - mean) / std
\* is written by its numerator times the length, spectrogram[i] * length
\* minus the sum; std, a positive number where it is not 0, is left out.
\* variance is a sum of squares, 0 only where every deviation is 0, and then
\* every value is 0 / 0.
normalize(spectrogram) ==
    LET length == Len(spectrogram)
        total == SumOf(spectrogram, 1, length)
        deviation == [ i \in 1..length |-> spectrogram[i] * length - total ]
        stdIsZero == \A i \in 1..length : deviation[i] = 0
    IN  [ i \in 1..length |->
            IF stdIsZero THEN NaN ELSE [ nan |-> FALSE, deviation |-> deviation[i] ] ]

\* preprocessAudio, lines 84-98; raised is the RangeError of
\* computeMelSpectrogram.
preprocessAudio(audioData) ==
    LET resampled == IF Len(audioData) # 16000 THEN resample(audioData, 16000)
                     ELSE audioData
        melSpectrogram == computeMelSpectrogram(resampled)
    IN  [ resampled |-> resampled, raised |-> melSpectrogram.raised,
          normalized |-> IF melSpectrogram.raised THEN <<>>
                         ELSE normalize(melSpectrogram.spectrogram) ]

\* Waveform lengths: those next to the multiples of half a hop up to
\* MaxFrames frames, among them the lengths where the number of frames
\* changes, and the 16000 samples of line 87.
WaveLengths ==
    { L \in 0..(frameSize + MaxFrames * hopSize - 1) : L % 80 \in { 0, 79 } }
    \cup { 16000 }

\* Waveforms: silence, and a tone of period 3.
Waveforms ==
    { [ k \in 1..L |-> 0 ] : L \in WaveLengths }
    \cup { [ k \in 1..L |-> Unit * (k % 3) ] : L \in WaveLengths }

\* The sample rates a capture source declares for its waveform.
SampleRates == { 16000, 44100 }

\* Matrices given to normalize: up to MaxCells values.
Matrices == UNION { [ 1..n -> { LogFloor, 0, 1 } ] : n \in 0..MaxCells }

FeatureCalls ==
    [ fn : { "preprocessAudio" }, audioData : Waveforms, sampleRate : SampleRates ]
    \cup [ fn : { "computeMelSpectrogram" }, audio : Waveforms ]
    \cup [ fn : { "normalize" }, spectrogram : Matrices ]

\* sttService.preprocessAudio(audioData) is called with a waveform captured
\* at call.sampleRate.
PreprocessAudio ==
    /\ call.fn = "preprocessAudio"
    /\ result = NotDone
    /\ LET processed == preprocessAudio(call.audioData)
       IN  result' = [ done |-> TRUE, resampled |-> processed.resampled,
                       raised |-> processed.raised,
                       normalized |-> processed.normalized ]
    /\ UNCHANGED <<genInput, genOutput, call, dictVars, lsVars, chanVars, appVars>>

\* sttService.computeMelSpectrogram(audio) is called.
ComputeMelSpectrogram ==
    /\ call.fn = "computeMelSpectrogram"
    /\ result = NotDone
    /\ LET mel == computeMelSpectrogram(call.audio)
       IN  result' = [ done |-> TRUE, raised |-> mel.raised, numFrames |-> mel.numFrames,
                       frameLengths |-> mel.frameLengths,
                       spectrogram |-> mel.spectrogram ]
    /\ UNCHANGED <<genInput, genOutput, call, dictVars, lsVars, chanVars, appVars>>

\* sttService.normalize(spectrogram) is called.
Normalize ==
    /\ call.fn = "normalize"
    /\ result = NotDone
    /\ result' = [ done |-> TRUE, normalized |-> normalize(call.spectrogram) ]
    /\ UNCHANGED <<genInput, genOutput, call, dictVars, lsVars, chanVars, appVars>>

CallNext ==
    \/ RoundTripTranscript
    \/ RoundTripTranslation
    \/ RoundTripAudio
    \/ GenerateLipSyncFromText
    \/ SttDecodeOutput
    \/ MtDecodeOutput
    \/ PreprocessAudio
    \/ ComputeMelSpectrogram
    \/ Normalize

Calls ==
    ChannelCalls
    \cup TimelineCalls
    \cup DecoderCalls
    \cup FeatureCalls

----------------------------------------------------------------------------
(* DictionaryMT (mt.js 209-337): the dictionaries, translate and           *)
(* addTranslation.  A text is a sequence of words and spaces; a dictionary *)
(* key `${sourceLang}-${targetLang}` is written <<sourceLang, targetLang>>. *)

\* The dictionary of lines 212-251.
EnEs ==
    ( "hello" :> "hola" ) @@ ( "goodbye" :> "adiU+00F3s" ) @@
    ( "thank you" :> "gracias" ) @@ ( "please" :> "por favor" ) @@
    ( "yes" :> "sU+00ED" ) @@ ( "no" :> "no" ) @@
    ( "how are you" :> "cU+00F3mo estU+00E1s" ) @@ ( "good morning" :> "buenos dU+00EDas" ) @@
    ( "good afternoon" :> "buenas tardes" ) @@ ( "good night" :> "buenas noches" ) @@
    ( "what is your name" :> "cU+00F3mo te llamas" ) @@ ( "my name is" :> "me llamo" ) @@
    ( "nice to meet you" :> "encantado de conocerte" ) @@ ( "where are you from" :> "de dU+00F3nde eres" ) @@
    ( "i am from" :> "soy de" ) @@ ( "do you speak english" :> "hablas inglU+00E9s" ) @@
    ( "do you speak spanish" :> "hablas espaU+00F1ol" ) @@ ( "i understand" :> "entiendo" ) @@
    ( "i do not understand" :> "no entiendo" ) @@ ( "can you help me" :> "puedes ayudarme" ) @@
    ( "excuse me" :> "disculpa" ) @@ ( "sorry" :> "lo siento" ) @@
    ( "good" :> "bueno" ) @@ ( "bad" :> "malo" ) @@
    ( "big" :> "grande" ) @@ ( "small" :> "pequeU+00F1o" ) @@
    ( "hot" :> "caliente" ) @@ ( "cold" :> "frU+00EDo" ) @@
    ( "water" :> "agua" ) @@ ( "food" :> "comida" ) @@
    ( "house" :> "casa" ) @@ ( "car" :> "coche" ) @@
    ( "time" :> "tiempo" ) @@ ( "day" :> "dU+00EDa" ) @@
    ( "night" :> "noche" ) @@ ( "today" :> "hoy" ) @@
    ( "tomorrow" :> "maU+00F1ana" ) @@ ( "yesterday" :> "ayer" )

\* The dictionary of lines 252-291.
EsEn ==
    ( "hola" :> "hello" ) @@ ( "adiU+00F3s" :> "goodbye" ) @@
    ( "gracias" :> "thank you" ) @@ ( "por favor" :> "please" ) @@
    ( "sU+00ED" :> "yes" ) @@ ( "no" :> "no" ) @@
    ( "cU+00F3mo estU+00E1s" :> "how are you" ) @@ ( "buenos dU+00EDas" :> "good morning" ) @@
    ( "buenas tardes" :> "good afternoon" ) @@ ( "buenas noches" :> "good night" ) @@
    ( "cU+00F3mo te llamas" :> "what is your name" ) @@ ( "me llamo" :> "my name is" ) @@
    ( "encantado de conocerte" :> "nice to meet you" ) @@ ( "de dU+00F3nde eres" :> "where are you from" ) @@
    ( "soy de" :> "i am from" ) @@ ( "hablas inglU+00E9s" :> "do you speak english" ) @@
    ( "hablas espaU+00F1ol" :> "do you speak spanish" ) @@ ( "entiendo" :> "i understand" ) @@
    ( "no entiendo" :> "i do not understand" ) @@ ( "puedes ayudarme" :> "can you help me" ) @@
    ( "disculpa" :> "excuse me" ) @@ ( "lo siento" :> "sorry" ) @@
    ( "bueno" :> "good" ) @@ ( "malo" :> "bad" ) @@
    ( "grande" :> "big" ) @@ ( "pequeU+00F1o" :> "small" ) @@
    ( "caliente" :> "hot" ) @@ ( "frU+00EDo" :> "cold" ) @@
    ( "agua" :> "water" ) @@ ( "comida" :> "food" ) @@
    ( "casa" :> "house" ) @@ ( "coche" :> "car" ) @@
    ( "tiempo" :> "time" ) @@ ( "dU+00EDa" :> "day" ) @@
    ( "noche" :> "night" ) @@ ( "hoy" :> "today" ) @@
    ( "maU+00F1ana" :> "tomorrow" ) @@ ( "ayer" :> "yesterday" )

\* DictionaryMT constructor, lines 210-293.
InitDictionaries ==
    ( <<"en", "es">> :> EnEs ) @@ ( <<"es", "en">> :> EsEn )

\* String.prototype.toLowerCase on a word of the model.
LowerWord(word) ==
    IF word = "Hello" THEN "hello"
    ELSE IF word = "Salut" THEN "salut"
    ELSE word

\* text.toLowerCase().split(/\s+/): the words between runs of spaces, an
\* empty word before a leading and after a trailing run, [''] for ''.
RECURSIVE SplitSpaces(_, _, _)
SplitSpaces(text, i, inRun) ==
    IF i > Len(text) THEN (IF inRun \/ Len(text) = 0 THEN <<"">> ELSE <<>>)
    ELSE IF text[i] = " "
    THEN (IF i = 1 THEN <<"">> ELSE <<>>) \o SplitSpaces(text, i + 1, TRUE)
    ELSE <<LowerWord(text[i])>> \o SplitSpaces(text, i + 1, FALSE)

\* A default parameter value: the default for undefined.
Default(arg, value) == IF arg = Undefined THEN value ELSE arg

\* The outcome of an async function: fulfilled with a value or rejected
\* with an error.
Fulfilled(value) == [ raised |-> FALSE, error |-> <<>>, value |-> value ]
Rejected(error) == [ raised |-> TRUE, error |-> error, value |-> Undefined ]

\* translate without the test of line 306: reading a property of undefined
\* raises a TypeError.
translate_noGuard(dicts, text, sourceLang, targetLang) ==
    LET dictKey == <<Default(sourceLang, "en"), Default(targetLang, "es")>>
    IN  IF dictKey \notin DOMAIN dicts
        THEN Rejected(<<"TypeError">>)
        ELSE LET dictionary == dicts[dictKey]
                 words == SplitSpaces(text, 1, FALSE)
                 translatedWords ==
                     [ k \in 1..Len(words) |->
                         IF words[k] \in DOMAIN dictionary /\ dictionary[words[k]] # ""
                         THEN dictionary[words[k]] ELSE words[k] ]
             IN  Fulfilled(join(translatedWords))

\* translate, lines 302-314.
translate(dicts, text, sourceLang, targetLang) ==
    LET dictKey == <<Default(sourceLang, "en"), Default(targetLang, "es")>>
    IN  IF dictKey \notin DOMAIN dicts
        THEN Rejected(<<"Translation not supported", dictKey[1], dictKey[2]>>)
        ELSE LET dictionary == dicts[dictKey]
                 words == SplitSpaces(text, 1, FALSE)
                 translatedWords ==
                     [ k \in 1..Len(words) |->
                         IF words[k] \in DOMAIN dictionary /\ dictionary[words[k]] # ""
                         THEN dictionary[words[k]] ELSE words[k] ]
             IN  Fulfilled(join(translatedWords))

\* addTranslation, lines 323-329.
addTranslation(dicts, source, target, sourceLang, targetLang) ==
    LET dictKey == <<Default(sourceLang, "en"), Default(targetLang, "es")>>
        d1 == IF dictKey \in DOMAIN dicts THEN dicts
              ELSE dicts @@ ( dictKey :> << >> )
        entry == LowerWord(source) :> LowerWord(target)
    IN  [ d1 EXCEPT ![dictKey] = entry @@ @ ]

\* The language arguments, the words and the texts of the calls.
DictLanguages == { "en", "fr", Undefined }
DictWords == { "Hello", " " }

RECURSIVE DictTextsUpTo(_)
DictTextsUpTo(n) ==
    IF n = 0 THEN { <<>> }
    ELSE LET shorter == DictTextsUpTo(n - 1)
         IN  shorter \cup { Append(t, w) : t \in shorter, w \in DictWords }

DictTexts == DictTextsUpTo(MaxWords)

\* History of the latest DictionaryMT call: its name and arguments, the
\* dictionaries before it, its outcome, and the calls of addTranslation
\* made so far.
NoTranslation ==
    [ op |-> "none", text |-> <<>>, sourceLang |-> Undefined,
      targetLang |-> Undefined, before |-> InitDictionaries,
      outcome |-> Fulfilled(<<>>), added |-> {} ]

\* dictionaryMT.translate(text, sourceLang, targetLang) is called.
Translate ==
    \E text \in DictTexts, sourceLang \in DictLanguages, targetLang \in DictLanguages :
        /\ translation' =
              [ translation EXCEPT
                  !.op = "translate", !.text = text,
                  !.sourceLang = sourceLang, !.targetLang = targetLang,
                  !.before = dictionaries,
                  !.outcome = translate(dictionaries, text, sourceLang, targetLang) ]
        /\ UNCHANGED <<dictionaries, genInput, genOutput, call, result>>
        /\ UNCHANGED <<lsVars, chanVars, appVars>>

\* dictionaryMT.addTranslation(source, target, sourceLang, targetLang) is
\* called.
AddTranslation ==
    \E sourceLang \in DictLanguages, targetLang \in DictLanguages :
        /\ Cardinality(translation.added) < MaxAdds
        /\ dictionaries' =
              addTranslation(dictionaries, "Hello", "Salut", sourceLang, targetLang)
        /\ translation' =
              [ translation EXCEPT
                  !.op = "addTranslation", !.text = <<"Hello">>,
                  !.sourceLang = sourceLang, !.targetLang = targetLang,
                  !.before = dictionaries,
                  !.outcome = Fulfilled(<<>>),
                  !.added = @ \cup { <<sourceLang, targetLang>> } ]
        /\ UNCHANGED <<genInput, genOutput, call, result>>
        /\ UNCHANGED <<lsVars, chanVars, appVars>>

DictNext ==
    \/ Translate
    \/ AddTranslation

----------------------------------------------------------------------------
(* Specifications *)

\* Every object as its constructor leaves it; no generator call is made.
Init ==
    /\ genInput = [ text |-> <<>>, language |-> "en" ]
    /\ lipSync = InitLipSync
    /\ rafCallbacks = {}
    /\ clock = 0
    /\ play = InitPlay
    /\ prevNotified = Null
    /\ emitted = <<>>
    /\ lastOp = "init"
    /\ genOutput = NotRun
    /\ call = NoCall
    /\ result = NotDone
    /\ channel = InitChannel
    /\ peers = <<>>
    /\ conversions = {}
    /\ sends = <<>>
    /\ wire = <<>>
    /\ received = InitReceived
    /\ link = InitLink
    /\ app = InitApp
    /\ capture = InitCapture
    /\ utterances = <<>>
    /\ dictionaries = InitDictionaries
    /\ translation = NoTranslation

\* The same, with the text and language of the one generator call.
InitGenerate ==
    /\ genInput \in [ text : GenTexts, language : Languages ]
    /\ lipSync = InitLipSync
    /\ rafCallbacks = {}
    /\ clock = 0
    /\ play = InitPlay
    /\ prevNotified = Null
    /\ emitted = <<>>
    /\ lastOp = "init"
    /\ genOutput = NotRun
    /\ call = NoCall
    /\ result = NotDone
    /\ channel = InitChannel
    /\ peers = <<>>
    /\ conversions = {}
    /\ sends = <<>>
    /\ wire = <<>>
    /\ received = InitReceived
    /\ link = InitLink
    /\ app = InitApp
    /\ capture = InitCapture
    /\ utterances = <<>>
    /\ dictionaries = InitDictionaries
    /\ translation = NoTranslation

\* The same, with the function and arguments of the one call.
InitCall ==
    /\ genInput = [ text |-> <<>>, language |-> "en" ]
    /\ lipSync = InitLipSync
    /\ rafCallbacks = {}
    /\ clock = 0
    /\ play = InitPlay
    /\ prevNotified = Null
    /\ emitted = <<>>
    /\ lastOp = "init"
    /\ genOutput = NotRun
    /\ call \in Calls
    /\ result = NotDone
    /\ channel = InitChannel
    /\ peers = <<>>
    /\ conversions = {}
    /\ sends = <<>>
    /\ wire = <<>>
    /\ received = InitReceived
    /\ link = InitLink
    /\ app = InitApp
    /\ capture = InitCapture
    /\ utterances = <<>>
    /\ dictionaries = InitDictionaries
    /\ translation = NoTranslation

SpecLipSync == Init /\ [][LsNext]_vars

\* The browser keeps running animation-frame callbacks and the audio clock
\* keeps advancing.
SpecLipSyncFair ==
    SpecLipSync /\ WF_vars(Frame) /\ WF_vars(AdvanceClock)

SpecGenerate == InitGenerate /\ [][GenNext]_vars

SpecSend == Init /\ [][SendNext]_vars

SpecReceive == Init /\ [][ReceiveNext]_vars

SpecApp == Init /\ [][AppNext]_vars

SpecCall == InitCall /\ [][CallNext]_vars

SpecDictionary == Init /\ [][DictNext]_vars

----------------------------------------------------------------------------
(* Properties of the scheduler *)

\* The notifications up to and including those of the latest handler, as far
\* as the history keeps them.
RecentNotifications ==
    (IF prevNotified = Null THEN <<>> ELSE <<prevNotified>>)
    \o [ k \in 1..Len(emitted) |-> emitted[k].viseme ]

\* Who made each of them ("earlier" for the one before the latest handler).
RecentOrigins ==
    (IF prevNotified = Null THEN <<>> ELSE <<"earlier">>)
    \o [ k \in 1..Len(emitted) |-> emitted[k].by ]

\* C1 as stated: no two consecutive viseme-changed notifications carry the
\* same viseme, REST included.
C1_NoRepeatedNotification ==
    \A k \in 2..Len(RecentNotifications) :
        RecentNotifications[k] # RecentNotifications[k - 1]

\* C1 amended: a notification made by a tick never carries the viseme of the
\* notification before it; a notification repeats its predecessor only when
\* it is the REST that stopLipSync forces.
C1_OnlyForcedRestRepeats ==
    \A k \in 2..Len(RecentNotifications) :
        RecentNotifications[k] = RecentNotifications[k - 1]
            => /\ RecentOrigins[k] = "stopLipSync"
               /\ RecentNotifications[k] = REST

\* A tick notified a viseme after an earlier notification.
C1_Witness ==
    /\ prevNotified # Null
    /\ lastOp = "frame"
    /\ \E k \in 1..Len(emitted) : emitted[k].by = "animate"

IsSuffix(q, t) ==
    /\ Len(q) <= Len(t)
    /\ \A k \in 1..Len(q) : q[k] = t[Len(t) - Len(q) + k]

\* C4: at most one animation-frame callback is pending, it is the one whose
\* handle the service holds, the queue holds events of the latest started
\* timeline only, and a start while Playing begins with the stop's REST.
C4_SingleTimeline ==
    /\ Cardinality(rafCallbacks) <= 1
    /\ rafCallbacks # {} => lipSync.isPlaying /\ rafCallbacks = { lipSync.animationFrame }
    /\ IsSuffix(lipSync.visemeQueue, play.timeline)
    /\ (lastOp = "restart" /\ play.observed)
          => /\ emitted # <<>>
             /\ emitted[1] = [ viseme |-> REST, by |-> "stopLipSync" ]

\* A timeline was started while another was Playing, and is Playing.
C4_Witness ==
    /\ lastOp = "restart"
    /\ lipSync.isPlaying
    /\ rafCallbacks # {}
    /\ lipSync.visemeQueue # <<>>

Idle ==
    /\ ~lipSync.isPlaying
    /\ lipSync.currentViseme = REST
    /\ lipSync.animationFrame = NoFrame
    /\ rafCallbacks = {}

PastLastEvent ==
    /\ lipSync.isPlaying
    /\ lipSync.visemeQueue # <<>>
    /\ clock >= Last(lipSync.visemeQueue).endTime

\* C5: once the clock has passed the last event's endTime, the scheduler
\* comes to rest: queue empty, Idle, current viseme REST, no tick pending
\* (or the caller's stopLipSync has made it Idle before the next tick).
C5_Terminates ==
    PastLastEvent ~> (Idle /\ (lipSync.visemeQueue = <<>> \/ play.aborted))

\* A timeline that was Playing has been ended by a tick.
C5_Witness ==
    /\ lastOp = "frame"
    /\ play.finished
    /\ Idle
    /\ lipSync.visemeQueue = <<>>

\* The first viseme of each run of equal consecutive visemes.
RunHeads(events) ==
    LET heads == { k \in 1..Len(events) :
                     k = 1 \/ events[k].viseme # events[k - 1].viseme }
        pick == SelectSeq([ k \in 1..Len(events) |-> k ], LAMBDA k : k \in heads)
    IN  [ j \in 1..Len(pick) |-> events[pick[j]].viseme ]

EveryIntervalTicked ==
    /\ play.observed
    /\ play.timeline # <<>>
    /\ play.ticked = 1..Len(play.timeline)

\* C6 as stated: a timeline ticked inside every event interval has notified
\* exactly one viseme per run of equal consecutive visemes, in order.
C6_OnePerRun ==
    EveryIntervalTicked => play.log = RunHeads(play.timeline)

\* C6 amended: the same, except that a leading run of REST is not notified
\* (the current viseme is REST when the timeline starts).
C6_OnePerRunAfterRest ==
    EveryIntervalTicked =>
        play.log = LET heads == RunHeads(play.timeline)
                   IN  IF heads[1] = REST THEN Tail(heads) ELSE heads

\* A timeline with a change of viseme was ticked in every interval and ended.
C6_Witness ==
    /\ EveryIntervalTicked
    /\ play.finished
    /\ Len(play.log) >= 2

SameService(a, b) == a.ls = b.ls /\ a.raf = b.raf

\* C7: stopLipSync in any state leaves Idle, REST and no pending tick; a
\* second stop changes no field; no tick after it, at any clock time,
\* changes anything; and the state after a stop is that state.
C7_StopImmediateIdempotent ==
    /\ LET s == stopLipSync(World)
       IN  /\ ~s.ls.isPlaying
           /\ s.ls.currentViseme = REST
           /\ s.ls.animationFrame = NoFrame
           /\ s.raf = {}
           /\ SameService(stopLipSync(s), s)
           /\ \A t \in 0..MaxClock : animate(s, t) = s
    /\ lastOp = "stop" => Idle

\* A Playing timeline was stopped while its queue still holds the event of
\* the current clock time.
C7_Witness ==
    /\ lastOp = "stop"
    /\ play.aborted
    /\ \E k \in EventsAt(lipSync.visemeQueue, clock) :
           lipSync.visemeQueue[k].viseme # REST

----------------------------------------------------------------------------
(* Properties of the generator *)

\* C8: every generated event carries a member of the closed VisemeId set.
C8_VisemeInClosedSet ==
    genOutput.ran =>
        \A k \in 1..Len(genOutput.events) : genOutput.events[k].viseme \in VisemeIds

----------------------------------------------------------------------------
(* Properties of the channel *)

\* C3: a send issued or completing while the channel is not Connected
\* transmits nothing, raises nothing and leaves no conversion behind; every
\* transmission belongs to a send that completed while Connected.
C3_SendsOnlyWhileConnected ==
    /\ \A k \in 1..Len(sends) :
         /\ ~sends[k].raised
         /\ (~sends[k].issuedConnected \/ sends[k].completedConnected = "no")
              => ~sends[k].transmitted
         /\ ~sends[k].issuedConnected => \A c \in conversions : c.call # k
         /\ sends[k].transmitted => sends[k].completedConnected = "yes"
    /\ Len(wire) = Cardinality({ k \in 1..Len(sends) : sends[k].transmitted })

\* A sendAudio was issued while Connected and its conversion finished after
\* the channel had left Connected.
C3_Witness ==
    \E k \in 1..Len(sends) :
        /\ sends[k].type = "audio"
        /\ sends[k].issuedConnected
        /\ sends[k].completedConnected = "no"
        /\ ~sends[k].rejected

HandlerOf == [ audio |-> "onAudioData", transcript |-> "onTranscript",
               translation |-> "onTranslation" ]

\* C9: a well-formed envelope received by a channel whose handlers are
\* registered is handed to the handler of its type.
C9_DispatchByType ==
    (received.class \in DOMAIN HandlerOf /\ received.listening)
        => \E k \in 1..Len(received.calls) :
              received.calls[k].handler = HandlerOf[received.class]

\* C10: data that is no envelope, or an envelope of unknown type, calls no
\* handler, raises nothing and leaves peer and isConnected as they were; a
\* valid audio envelope is dispatched also after such data.
C10_BadDataDropped ==
    /\ ~received.raised
    /\ received.stateKept
    /\ received.class \in { "unknown", "malformed" } => received.calls = <<>>
    /\ (received.class = "audio" /\ received.listening)
         => received.calls = << [ handler |-> "onAudioData",
                                  arg |-> Get(AudioEnvelope, "audio") ] >>

\* A valid audio envelope was dispatched on a connected channel after bad
\* data had been dropped.
C10_Witness ==
    /\ received.class = "audio"
    /\ received.afterDrop
    /\ received.calls # <<>>
    /\ ChannelConnected

ChannelState == getConnectionState(ChanWorld)

LifecycleSteps ==
    { <<"disconnected", "connecting">>, <<"connecting", "connected">>,
      <<"connected", "disconnected">>, <<"connecting", "disconnected">> }

\* C11: the connection state moves only along Disconnected -> Connecting ->
\* Connected -> Disconnected; what getConnectionState() reports agrees with
\* the isConnected flag and with the last state-change notification, and is
\* 'disconnected' after a close event.
C11_LifecycleAgrees ==
    /\ ChannelState = link.before \/ <<link.before, ChannelState>> \in LifecycleSteps
    /\ (ChannelState = "connected") <=> channel.isConnected
    /\ link.notified # "none" =>
          ((link.notified = "connected") <=> (ChannelState = "connected"))
    /\ link.event = "close" => ChannelState = "disconnected"

\* C12: disconnect() from any state leaves no peer and isConnected false and
\* raises nothing; a second disconnect() changes nothing; a close event of a
\* peer it destroyed leaves the channel not Connected, and so does every
\* event of a destroyed peer that has arrived.
C12_DisconnectImmediateIdempotent ==
    /\ LET d == disconnect(ChanWorld)
       IN  /\ d.ch.peer = 0
           /\ ~d.ch.isConnected
           /\ ~d.raised
           /\ disconnect(d) = d
           /\ \A p \in 1..Len(d.peers) :
                 d.peers[p] = "destroyed" =>
                     ~onClose([ d EXCEPT !.peers[p] = "closed" ]).ch.isConnected
    /\ link.ofDestroyed => ~channel.isConnected

\* disconnect() was called on a Connected channel and the close event of the
\* destroyed peer has arrived.
C12_Witness ==
    /\ link.ofDestroyed
    /\ link.event = "close"
    /\ link.notified = "disconnected"
    /\ channel.peer = 0

----------------------------------------------------------------------------
(* Properties of the orchestrator *)

----------------------------------------------------------------------------
(* Properties of single calls *)

\* The properties of the envelope a send call builds from its arguments.
SentEnvelope ==
    CASE call.fn = "sendTranscript" ->
            << <<"type", Str("transcript")>>, <<"text", call.transcript>>,
               <<"language", call.language>>, <<"timestamp", Num(call.now)>> >>
      [] call.fn = "sendTranslation" ->
            << <<"type", Str("translation")>>, <<"original", call.originalText>>,
               <<"translated", call.translatedText>>, <<"sourceLang", Str("en")>>,
               <<"targetLang", Str("es")>>, <<"timestamp", Num(call.now)>> >>
      [] OTHER ->
            << <<"type", Str("audio")>>, <<"timestamp", Num(call.now)>> >>

\* C13: what the peer decodes from a transmitted envelope has the type, the
\* fields and the timestamp of the original, and the bytes convertBase64ToAudio
\* returns are the bytes convertAudioToBase64 was given.
C13_RoundTrip ==
    (call.fn \in { "sendTranscript", "sendTranslation", "sendAudio" }
       /\ result.done /\ result.transmitted)
      => /\ result.ok
         /\ \A k \in 1..Len(SentEnvelope) :
                Get(result.message, SentEnvelope[k][1]) = SentEnvelope[k][2]
         /\ call.fn = "sendAudio" =>
                /\ ~result.audio.raised
                /\ result.audio.blob.bytes = call.audioData.bytes

\* The bytes 0x00, 0xFF, 0x10 of a recorded Blob came back from the peer's
\* decoding.
C13_Witness ==
    /\ call.fn = "sendAudio"
    /\ result.done
    /\ result.transmitted
    /\ call.audioData.kind = "Blob"
    /\ call.audioData.bytes = <<0, 255, 16>>
    /\ result.audio.blob.bytes = <<0, 255, 16>>

RECURSIVE SumSpans(_)
SumSpans(events) ==
    IF events = <<>> THEN 0
    ELSE (Head(events).endTime - Head(events).startTime) + SumSpans(Tail(events))

RECURSIVE Tokens(_, _, _)
Tokens(table, text, i) ==
    IF i > Len(text) THEN <<>>
    ELSE IF text[i] = " " THEN Tokens(table, text, i + 1)
    ELSE IF i < Len(text) /\ text[i + 1] # " "
            /\ <<text[i], text[i + 1]>> \in DOMAIN table
    THEN <<table[<<text[i], text[i + 1]>>]>> \o Tokens(table, text, i + 2)
    ELSE IF <<text[i]>> \in DOMAIN table
    THEN <<table[<<text[i]>>]>> \o Tokens(table, text, i + 1)
    ELSE << <<text[i]>> >> \o Tokens(table, text, i + 1)

\* C18: the timeline has one event per token of the text, in text order,
\* event i carrying the viseme phonemeToViseme gives for token i; for
\* "hello" in 'en' with duration 1.0 s these are 5 events of 0.2 s, the
\* first with the viseme of HH and the last with the viseme of OW.
C18_OneEventPerPhoneme ==
    (call.fn = "generateLipSyncFromText" /\ result.done)
      => LET table == IF call.language = "es" THEN spanishPhonemes ELSE englishPhonemes
             tokens == Tokens(table, ToLowerCase(call.text), 1)
             events == result.events
         IN  /\ Len(events) = Len(tokens)
             /\ \A i \in 1..Len(tokens) :
                   /\ events[i].phoneme = tokens[i]
                   /\ events[i].viseme = phonemeToViseme(tokens[i])
             /\ (call.text = Hello /\ call.language = "en" /\ call.duration = 60)
                  => /\ Len(events) = 5
                     /\ \A i \in 1..5 : events[i].endTime - events[i].startTime = 12
                     /\ events[1].viseme = VISEMES.HH
                     /\ events[5].viseme = VISEMES.OW

\* The timeline of "hello" in 'en' with duration 1.0 s was generated.
C18_Witness ==
    /\ call.fn = "generateLipSyncFromText"
    /\ call.text = Hello
    /\ call.language = "en"
    /\ call.duration = 60
    /\ result.done
    /\ Len(result.events) = 5

\* The events of a caller's sequence, each moved by the offset.
Shifted(events, offset) ==
    [ k \in 1..Len(events) |->
        [ phoneme |-> events[k].phoneme,
          viseme |-> events[k].viseme,
          startTime |-> events[k].startTime + offset,
          endTime |-> events[k].endTime + offset ] ]

\* The events of a queue that have not ended at time t, in their order.
RECURSIVE NotEnded(_, _)
NotEnded(queue, t) ==
    IF queue = <<>> THEN <<>>
    ELSE IF Head(queue).endTime <= t THEN NotEnded(Tail(queue), t)
    ELSE <<Head(queue)>> \o NotEnded(Tail(queue), t)

\* C15 as stated: when startLipSync has returned, the queue holds exactly
\* the given events in order, each moved by the offset with its symbol
\* unchanged, and the current viseme is REST.
C15_AllEventsInstalledAtRest ==
    lastOp \in { "start", "restart" }
      => /\ lipSync.visemeQueue = Shifted(play.given, play.offset)
         /\ lipSync.currentViseme = REST

\* C15: startLipSync installs the given events in order, each moved by the
\* offset with its symbol unchanged, and makes the first tick at once: when
\* it has returned, the queue holds those of them that end after the clock
\* reading, the current viseme is that of the event whose interval holds
\* the clock reading (REST when there is none), and the service is Playing
\* exactly when an event is left.
C15_ShiftedEventsAfterFirstTick ==
    lastOp \in { "start", "restart" }
      => LET shifted == Shifted(play.given, play.offset)
             current == { k \in 1..Len(shifted) :
                            /\ shifted[k].startTime <= play.at
                            /\ play.at < shifted[k].endTime }
         IN  /\ play.timeline = shifted
             /\ lipSync.visemeQueue = NotEnded(shifted, play.at)
             /\ lipSync.isPlaying = (NotEnded(shifted, play.at) # <<>>)
             /\ lipSync.currentViseme =
                   IF current = {} THEN REST
                   ELSE shifted[CHOOSE k \in current : \A j \in current : k <= j].viseme

\* A timeline of two events was started at a clock reading above 0 with the
\* clock reading as its offset, and all of it is queued.
C15_Witness ==
    /\ lastOp = "start"
    /\ play.offset > 0
    /\ Len(play.given) = 2
    /\ Len(lipSync.visemeQueue) = 2
    /\ lipSync.isPlaying

\* A step in which startLipSync is called: it begins a new history.
Started == lastOp' \in { "start", "restart" } /\ play' # play

\* C16: an animation frame leaves in the queue exactly the events that end
\* after the clock reading, in their order; a step that is no startLipSync
\* leaves a suffix of the queue; and a viseme an animation frame notifies
\* is that of a queued event that has begun and not ended.
C16_ForwardOnlySweep ==
    [][ /\ \/ lipSync.visemeQueue' = NotEnded(lipSync.visemeQueue, clock)
           \/ ~Frame
        /\ \/ IsSuffix(lipSync.visemeQueue', lipSync.visemeQueue)
           \/ Started
        /\ \/ \A n \in 1..Len(emitted') :
                  emitted'[n].by = "animate"
                    => \E k \in 1..Len(lipSync.visemeQueue) :
                          /\ lipSync.visemeQueue[k].viseme = emitted'[n].viseme
                          /\ lipSync.visemeQueue[k].startTime <= clock
                          /\ clock < lipSync.visemeQueue[k].endTime
           \/ ~Frame ]_vars

\* An animation frame evicted an event of a running timeline and kept
\* another.
C16_Witness ==
    /\ lastOp = "frame"
    /\ play.swept > 0
    /\ lipSync.isPlaying
    /\ lipSync.visemeQueue # <<>>

\* A text of separators only, or of nothing.
IsBlank(text) == \A i \in 1..Len(text) : text[i] = " "

\* C17: a text without phonemes generates the empty sequence, and
\* startLipSync with it leaves the service Idle with REST, no animation
\* frame requested, and no viseme but REST notified.
C17_EmptyIsNoAnimation ==
    (lastOp \in { "start", "restart" } /\ IsBlank(play.text))
      => /\ play.given = <<>>
         /\ lipSync.visemeQueue = <<>>
         /\ Idle
         /\ play.log = <<>>
         /\ \A n \in 1..Len(emitted) : emitted[n].viseme = REST

\* A timeline generated from a text of separators was started while another
\* was Playing, with a listener registered.
C17_Witness ==
    /\ lastOp = "restart"
    /\ play.text # <<>>
    /\ IsBlank(play.text)
    /\ play.observed
    /\ emitted # <<>>

Reserved == { "<sos>", "<eos>", "<unk>" }

Decoded ==
    /\ call.fn \in { "STTService.decodeOutput", "MTService.decodeOutput" }
    /\ result.done

\* C19: the text a decoder returns holds none of <sos>, <eos>, <unk>, and
\* is symbols with one space between each two, without a space at either
\* end.
C19_NoReservedTokenInText ==
    Decoded
      => /\ \A k \in 1..Len(result.text) : result.text[k] \notin Reserved
         /\ \A k \in 1..Len(result.text) : (result.text[k] = " ") = (k % 2 = 0)
         /\ Len(result.text) # 0 => Len(result.text) % 2 = 1

\* The chunks of vocabSize values an output of n values has (the last may be
\* short), and the lowest index of a chunk's greatest value.
Chunks(n, vocabSize) == (n + vocabSize - 1) \div vocabSize

FirstGreatest(output, from, to) ==
    CHOOSE t \in 0..(to - from) :
        /\ \A j \in 0..(to - from) : output[from + j] <= output[from + t]
        /\ \A j \in 0..(t - 1) : output[from + j] < output[from + t]

\* C20: a decoder yields one token id for each chunk of vocabSize values of
\* the output, in order: the lowest index at which the chunk has its
\* greatest value.
C20_OneTokenPerChunk ==
    Decoded
      => LET vocabSize == Len(call.vocab.items)
             n == Len(call.output)
         IN  /\ Len(result.tokens) = Chunks(n, vocabSize)
             /\ \A c \in 1..Len(result.tokens) :
                   LET from == (c - 1) * vocabSize + 1
                       to == IF c * vocabSize > n THEN n ELSE c * vocabSize
                   IN  to >= from
                         => result.tokens[c] = FirstGreatest(call.output, from, to)

\* C29: whenever the scheduler is not Playing the current viseme is REST
\* and no animation frame is pending; a current viseme other than REST
\* exists only while Playing.
C29_IdleIsAtRest ==
    /\ ~lipSync.isPlaying
          => /\ lipSync.currentViseme = REST
             /\ rafCallbacks = {}
             /\ lipSync.animationFrame = NoFrame
    /\ lipSync.currentViseme # REST => lipSync.isPlaying

\* cleanup was called on a timeline whose ticks had notified a viseme, and
\* the scheduler is not Playing.
C29_Witness ==
    /\ lastOp = "cleanup"
    /\ play.log # <<>>
    /\ play.aborted
    /\ ~lipSync.isPlaying

\* C30: isConnected is true only when the service has a peer and that peer
\* has connected and not closed.
C30_ConnectedIsCurrentPeer ==
    channel.isConnected
      => /\ channel.peer # 0
         /\ peers[channel.peer] = "connected"

\* The lowest index of the greatest value of each chunk of an output.
ChunkTokens(output, vocabSize) ==
    [ c \in 1..Chunks(Len(output), vocabSize) |->
        FirstGreatest(output, (c - 1) * vocabSize + 1,
                      IF c * vocabSize > Len(output) THEN Len(output)
                      ELSE c * vocabSize) ]

\* C21: with a vocabulary that has the stop token <eos>, the translation
\* decoder yields the tokens of the chunks before the first chunk whose
\* token is the stop token, and nothing of that chunk or of a later one.
C21_HaltsAtStopToken ==
    ( /\ call.fn = "MTService.decodeOutput"
      /\ result.done
      /\ "<eos>" \in Range(call.vocab.items) )
      => LET all == ChunkTokens(call.output, Len(call.vocab.items))
             stopToken == (CHOOSE k \in 1..Len(call.vocab.items) :
                              call.vocab.items[k] = "<eos>") - 1
             stops == { c \in 1..Len(all) : all[c] = stopToken }
             first == CHOOSE c \in stops : \A b \in stops : c <= b
         IN  result.tokens = IF stops = {} THEN all
                             ELSE SubSeq(all, 1, first - 1)

\* The language pairs that have a dictionary: the two of the constructor
\* and those addTranslation was called with.
PairsWithDictionary ==
    { <<"en", "es">>, <<"es", "en">> }
    \cup { <<Default(pair[1], "en"), Default(pair[2], "es")>> :
             pair \in translation.added }

\* C26: translate for a pair without a dictionary fails with the
\* unsupported-pair error naming the pair, returns no text and leaves the
\* dictionaries as they were; for a pair with a dictionary it does not fail.
C26_UnsupportedPairFails ==
    translation.op = "translate"
      => LET pair == <<Default(translation.sourceLang, "en"),
                       Default(translation.targetLang, "es")>>
         IN  IF pair \in PairsWithDictionary
             THEN ~translation.outcome.raised
             ELSE /\ translation.outcome.raised
                  /\ translation.outcome.error
                        = <<"Translation not supported", pair[1], pair[2]>>
                  /\ translation.outcome.value = Undefined
                  /\ dictionaries = translation.before

\* translate was called for a pair without a dictionary after a call of
\* addTranslation had created a dictionary for another pair.
C26_Witness ==
    /\ translation.op = "translate"
    /\ translation.outcome.raised
    /\ translation.added # {}
    /\ translation.text # <<>>

\* What endCall is to leave behind.
CallEnded ==
    /\ ~capture.isRecording
    /\ channel.peer = 0
    /\ ~channel.isConnected
    /\ Idle
    /\ ~app.isCallActive
    /\ ~app.isConnected
    /\ ~app.isRecording
    /\ ~app.isPlaying

\* C28: every call of endCall, whatever the state before it, leaves the
\* capture not recording, the channel without peer and not connected, the
\* scheduler Idle at REST, and the call flags reset.
C28_EndCallRunsAllSteps ==
    [][ CallEnded' \/ ~EndCall ]_vars

\* The calls and results of one handleAudioData invocation in the order of
\* the pipeline.
Pipeline ==
    << <<"stt", "start">>, <<"stt", "result">>, <<"mt", "start">>, <<"mt", "result">>,
       <<"tts", "start">>, <<"tts", "result">>, <<"play", "start">>,
       <<"play", "result">>, <<"lipSync", "start">> >>

\* C25: within one handleAudioData invocation the stages are called in the
\* order STT, MT, TTS, playback and timeline, each only after the result of
\* the one before it, and a stage without a result is the last one called.
C25_StagesInOrder ==
    \A u \in 1..Len(utterances) :
        /\ Len(utterances[u].log) <= Len(Pipeline)
        /\ utterances[u].log = SubSeq(Pipeline, 1, Len(utterances[u].log))

C25_Witness ==
    \E u \in 1..Len(utterances) :
        /\ utterances[u].pc = "done"
        /\ utterances[u].log = SubSeq(Pipeline, 1, 7)

\* C27: no failure of a send escapes: no sendAudio call raises, and no
\* conversion it started ends as a rejection that nothing handles.
C27_NoFailureEscapes ==
    \A k \in 1..Len(sends) : ~sends[k].raised /\ ~sends[k].rejected

\* C22: for a waveform of L samples computeMelSpectrogram returns
\* floor((L - 400) / 160) + 1 frames of 400 samples each, in an output of 80
\* values per frame, for every L.
C22_FrameCountFormula ==
    (call.fn = "computeMelSpectrogram" /\ result.done)
      => LET frames == ((Len(call.audio) - 400) \div 160) + 1
         IN  /\ ~result.raised
             /\ result.numFrames = frames
             /\ Len(result.frameLengths) = frames
             /\ \A f \in 1..Len(result.frameLengths) : result.frameLengths[f] = 400
             /\ Len(result.spectrogram) = frames * 80

\* C23: normalize of a matrix whose values are all equal returns finite
\* values, the fallback.  (A value of the model is a NaN or a z-score, in
\* which a fallback shows as zeros.)
C23_ZeroDeviationFallback ==
    (/\ call.fn = "normalize"
     /\ result.done
     /\ call.spectrogram # <<>>
     /\ \A i \in 1..Len(call.spectrogram) : call.spectrogram[i] = call.spectrogram[1])
      => \A i \in 1..Len(result.normalized) :
            ~result.normalized[i].nan /\ result.normalized[i].deviation = 0

\* C24: preprocessAudio passes a waveform captured at 16 kHz on unchanged,
\* whatever its length, and resamples a waveform captured at another rate to
\* length * 16000 / rate samples, each between the least and the greatest
\* sample of the input.
C24_ResampledIffOtherRate ==
    (call.fn = "preprocessAudio" /\ result.done)
      => IF call.sampleRate = 16000
         THEN result.resampled = call.audioData
         ELSE /\ Len(result.resampled) = (Len(call.audioData) * 16000) \div call.sampleRate
              /\ \A k \in 1..Len(result.resampled) :
                    result.resampled[k] \in 0..(2 * Unit)

====
